---------------------------- MODULE Spec2Model ----------------------------
(***************************************************************************)
(* State-machine model of the browser scripts of the Division of Health AI *)
(* site: the theme toggle, the canvas animations that read the theme, the  *)
(* global search overlay, the pillar filter, and the page-load guards      *)
(* (reduced motion, WebGL).                                                *)
(*                                                                         *)
(* Text is modelled as a sequence of one-character strings, so that trim,  *)
(* toLowerCase, join and includes are computed, not assumed.               *)
(***************************************************************************)
EXTENDS Integers, Sequences, FiniteSets, TLC

VARIABLES
  \* ---- theme toggle (theme-toggle.js, first script) ----
  dataTheme,        \* html[data-theme]
  storageTheme,     \* localStorage.getItem('theme'), NoItem when absent
  hasToggle,        \* document.getElementById('theme-toggle') is not null
  hasMatchMedia,    \* window.matchMedia exists
  prefersDark,      \* matchMedia('(prefers-color-scheme: dark)').matches
  ariaLabel,        \* #theme-toggle aria-label
  ariaPressed,      \* #theme-toggle aria-pressed
  toggleText,       \* #theme-toggle textContent
  events,           \* 'themechange' events dispatched on document, in order
  clicks,           \* number of clicks on #theme-toggle so far
  lastClick,        \* the data-theme before and after the latest click
  lastOp,           \* the handler that ran last
  \* ---- canvas animations ----
  pageKind,         \* which page is shown: decides which animation runs
  isMobile,         \* the user-agent / innerWidth < 768 test of the scripts
  rafLoops,         \* the scripts whose requestAnimationFrame chain is pending
  traces,           \* circuit: traces[]
  pulses,           \* circuit: pulses[]
  circuitVisible,   \* circuit: isVisible
  lines,            \* ticker: lines[]
  tickerVisible,    \* ticker: isVisible
  frame,            \* per animation, the colours its latest draw() used
  \* ---- search overlay (part_003, first script) ----
  inSubdir,         \* location.pathname is under /researchers/, /projects/ or /publications/
  allData,          \* allData, None until loadData() has filled it
  query,            \* the argument of the latest search() call
  searched,         \* search() has been called
  results,          \* what the latest search() call returned
  pane,             \* the content of #search-results
  \* ---- pillar filter (pillar-filter.js, first script) ----
  pathname,         \* location.pathname, as its sequence of segments
  urlPillar,        \* the 'pillar' parameter of the current URL, NoItem when absent
  navigation,       \* how the current URL came about: document load or pushState
  hasList,          \* document.querySelector('.list') is not null
  listItems,        \* the .list-item elements: badge and style.display
  filterInstalled,  \* the script got past its guards and built the buttons
  active,           \* the filter buttons carrying class 'active'
  filterOp,         \* the filter handler that ran last: load or click
  lastFilter,       \* data-filter of the button clicked last, NoItem if none
  loadedPillar,     \* the 'pillar' parameter the page was last loaded with
  \* ---- page load of the animation scripts, and the 3D scene (part_005) ----
  prefersReduced,   \* matchMedia('(prefers-reduced-motion: reduce)').matches
  nextScript,       \* index in ScriptOrder of the next script to execute
  rafPending,       \* the chains with a requestAnimationFrame callback pending
  timerPending,     \* the chains with a setTimeout callback pending
  started,          \* every self-rescheduling chain started since page load
  coreRunning,      \* isRunning of a loop made by AnimationCore.createAnimationLoop
  impactObserved,   \* an .impact-value element is observed by impactObserver
  sceneEnv,         \* what the 3D script found: container, WebGL, THREE
  sceneLoaded,      \* the 3D script has executed
  bodyClasses,      \* classes the 3D script added to document.body
  rendererCreated,  \* a THREE.WebGLRenderer was constructed
  sceneListeners,   \* the window events the 3D script listens to
  sceneHandled,     \* the window events a listener of the 3D script has handled
  renderCount,      \* calls of renderer.render so far
  \* ---- FitText (part_001) ----
  fitEl,            \* the title element as the browser lays it out
  fitStyle,         \* what FitText wrote on it: style.fontSize, dataset
  resizeTimeout,    \* resizeTimeout: the debounce timer of handleResize is pending
  fitRan,           \* fitElement went past its guard for the current layout
  \* ---- site build (spreadsheet -> pages) ----
  sheets,           \* the spreadsheet snapshot: raw rows of the three sheets
  records,          \* the Normalizer's output: typed records and parse failures
  findings,         \* the Validator's findings list
  output,           \* the files the latest run wrote
  previous,         \* the files of the runs before it, oldest first
  stage,            \* how far the running build has come
  \* ---- cards (card-interactions.js) and click pulse (part_000) ----
  cardLinks,        \* where the cards' markup says they lead
  cardEls,          \* per card: in the document, dataset flags, click listeners
  pulseOn,          \* the click pulse script ran (no reduced-motion preference)
  hasObserver,      \* 'MutationObserver' in window
  cardTimers,       \* pending setTimeout callbacks, with the time they are due
  cardRipples,      \* ripple spans now in the document
  cardClock,        \* ms since the scripts initialised
  cardLocation,     \* window.location.href once a card navigated
  cardClicks,       \* clicks dispatched so far
  lastCardClick,    \* the latest click: card, target, preventDefault called
  \* project page header animation (tetris blocks)
  blockObjs,        \* the block objects the two arrays refer to, by identity
  blocks,           \* the blocks array: identities, in array order
  settledBlocks,    \* the settledBlocks array: identities, in array order
  settleTimers,     \* pending removal timeouts: how many hold each block
  isVisible,        \* the header intersects the viewport
  nextBlock,        \* identity the next createBlock() yields
  resizes,          \* window resizes handled so far
  \* a loop made by AnimationCore.createAnimationLoop
  isRunning,        \* closure variable isRunning
  animationId,      \* closure variable animationId, 0 for null
  rafCallbacks,     \* ids of the loop's pending requestAnimationFrame callbacks
  nextRafId,        \* id the next requestAnimationFrame returns
  prefersReducedMotion, \* AnimationCore's prefersReducedMotion
  lastCall,         \* the latest call on the loop: start or stop
  peakPending,      \* most callbacks ever pending at once
  lateCalls,        \* functions invoked while the latest call was stop()
  loopOp,           \* the latest step: start, stop or frame
  updateFn,         \* the loop was made with an updateFn
  drawFn,           \* the loop was made with a drawFn
  \* search overlay events
  inputValue,       \* searchInput.value
  searchTimeout,    \* the pending debounce timer, with the query it closes over
  loadsInFlight,    \* loadData() calls awaiting their fetches
  overlayActive,    \* the overlay has class 'active'
  closedSince       \* closeSearch ran and no input event came after it

themeVars == <<dataTheme, storageTheme, hasToggle, hasMatchMedia, prefersDark, ariaLabel,
               ariaPressed, toggleText, events, clicks, lastClick, lastOp>>

canvasVars == <<pageKind, isMobile, rafLoops, traces, pulses, circuitVisible,
                lines, tickerVisible, frame>>

searchVars == <<inSubdir, allData, query, searched, results, pane>>

filterVars == <<pathname, urlPillar, navigation, hasList, listItems, filterInstalled,
                active, filterOp, lastFilter, loadedPillar>>

sceneVars == <<sceneEnv, sceneLoaded, bodyClasses, rendererCreated, sceneListeners,
               sceneHandled, renderCount>>

motionVars == <<prefersReduced, nextScript, rafPending, timerPending, started,
                coreRunning, impactObserved, sceneVars>>

fitVars == <<fitEl, fitStyle, resizeTimeout, fitRan>>

buildVars == <<sheets, records, findings, output, previous, stage>>

cardVars == <<cardLinks, cardEls, pulseOn, hasObserver, cardTimers, cardRipples,
              cardClock, cardLocation, cardClicks, lastCardClick>>

tetrisVars == <<blockObjs, blocks, settledBlocks, settleTimers, isVisible, nextBlock,
                resizes>>

loopVars == <<isRunning, animationId, rafCallbacks, nextRafId, prefersReducedMotion,
              lastCall, peakPending, lateCalls, loopOp, updateFn, drawFn>>

overlayVars == <<inputValue, searchTimeout, loadsInFlight, overlayActive, closedSince>>

lateVars == <<tetrisVars, loopVars, overlayVars>>

restVars == <<fitVars, buildVars, cardVars, lateVars>>

vars == <<themeVars, canvasVars, searchVars, filterVars, motionVars, restVars>>

----------------------------------------------------------------------------
\* Bounds of the model.
MaxClicks == 4
TraceCount == 1      \* config.traceCount, scaled down
MaxTraceLen == 2     \* longest totalLength of a trace, in model units
PulseLength == 1     \* config.pulseLength, in model units
MaxPulses == 4       \* cap on pulses alive at once
LineCount == 1       \* config.lineCount, scaled down
TickerWidth == 3     \* dimensions.width of the ticker canvas, in model units
InitialPulses == 3   \* pulses created by init()
MaxPerCategory == 4  \* longest array a data file holds
MaxItems == 3        \* longest list of .list-item elements
MaxRenders == 3      \* renderer.render calls followed
MinQueryLength == 2  \* search(): query.length < 2 returns []
MaxResults == 10     \* search(): results.slice(0, 10)
DescriptionLimit == 150  \* displayResults(): substring(0, 150)
MaxTextLen == 6      \* longest title, in glyphs
MaxResearchers == 2  \* most rows of the researchers sheet
MaxProjects == 2     \* most rows of the projects sheet
MaxPublications == 1 \* most rows of the publications sheet
MaxRuns == 2         \* build runs followed on one snapshot
FeaturedCount == 1   \* records of each type the homepage features
MaxCards == 2        \* cards the page ever holds
MaxCardClicks == 2   \* clicks on cards followed
RippleDuration == 300    \* config.rippleDuration, ms
NavigationDelay == 200   \* config.navigationDelay, ms
InitDelay == 50          \* setTimeout(initAllCards, 50), ms
PulseDuration == 600     \* click pulse config.duration, ms
PaddingPercent == 8  \* config.paddingPercent, in hundredths
MinFontSize == 10    \* config.minFontSize, in px
FallbackContainerWidth == 200  \* fitElement(): element.offsetWidth || 200
FallbackAvailableWidth == 100  \* fitElement(): availableWidth = 100

BlockSize == 1
CanvasHeight == 4
BlockCount == 1
Columns == 3
MinSettleFrames == 1
MaxBlockIds == 3
MaxResizes == 1
MaxCalls == 2
MaxRafIds == 8
MaxLoads == 2

NoItem == "null"
Themes == {"light", "theo"}
None == [none |-> TRUE]

----------------------------------------------------------------------------
\* Theme toggle: theme-toggle.js lines 6-72.

\* The mutable page state the click handler works on, as one record.
ThemeState ==
  [attr |-> dataTheme, stored |-> storageTheme, label |-> ariaLabel,
   pressed |-> ariaPressed, text |-> toggleText, events |-> events]

\* updateToggleButton(theme)
UpdateToggleButton(st, theme) ==
  IF ~hasToggle THEN st
  ELSE LET isTheo == (theme = "theo") IN
       [st EXCEPT !.label = IF isTheo THEN "Switch to Light Mode"
                                       ELSE "Switch to Theo Mode",
                  !.pressed = IF isTheo THEN "true" ELSE "false",
                  !.text = IF isTheo THEN "sun" ELSE "moon"]

\* html.setAttribute('data-theme', theme)
SetDataTheme(st, theme) == [st EXCEPT !.attr = theme]

\* localStorage.setItem('theme', theme)
SaveTheme(st, theme) == [st EXCEPT !.stored = theme]

\* document.dispatchEvent(new CustomEvent('themechange', {detail: {theme}}));
\* the event is logged with the page state a listener observes when it runs.
DispatchThemeChange(st, theme) ==
  [st EXCEPT !.events =
     Append(@, [theme |-> theme, attr |-> st.attr, stored |-> st.stored,
                pressed |-> st.pressed, label |-> st.label])]

\* const newTheme = currentTheme === 'light' ? 'theo' : 'light'
NewTheme(current) == IF current = "light" THEN "theo" ELSE "light"

\* Mutants of the click handler.
ClickHandlerNoSave(st) ==
  LET t == NewTheme(st.attr) IN
  DispatchThemeChange(UpdateToggleButton(SetDataTheme(st, t), t), t)

ClickHandlerEarlyDispatch(st) ==
  LET t == NewTheme(st.attr) IN
  UpdateToggleButton(SaveTheme(DispatchThemeChange(SetDataTheme(st, t), t), t), t)

\* The click listener's body, statement by statement.
ClickHandler(st) ==
  LET t == NewTheme(st.attr) IN
  DispatchThemeChange(UpdateToggleButton(SaveTheme(SetDataTheme(st, t), t), t), t)

\* Mutant of the initial theme: the saved preference is ignored.
InitialThemeIgnoreSaved(saved) == "light"

\* const currentTheme = savedTheme || 'light'
InitialTheme(saved) == IF saved = NoItem THEN "light" ELSE saved

\* One run of the script at page load: lines 10-33.
LoadThemeScript(st) ==
  LET t == InitialTheme(st.stored) IN UpdateToggleButton(SetDataTheme(st, t), t)

ApplyThemeState(st) ==
  /\ dataTheme' = st.attr
  /\ storageTheme' = st.stored
  /\ ariaLabel' = st.label
  /\ ariaPressed' = st.pressed
  /\ toggleText' = st.text
  /\ events' = st.events

\* A click on #theme-toggle.
ThemeClick ==
  /\ hasToggle
  /\ clicks < MaxClicks
  /\ ApplyThemeState(ClickHandler(ThemeState))
  /\ clicks' = clicks + 1
  /\ lastClick' = [before |-> dataTheme, after |-> ClickHandler(ThemeState).attr]
  /\ lastOp' = "click"
  /\ UNCHANGED <<hasToggle, hasMatchMedia, prefersDark>>

PrefersDarkHandlerAlways(st, matches) ==
  LET newTheme == IF matches THEN "theo" ELSE "light"
  IN  UpdateToggleButton(SetDataTheme(st, newTheme), newTheme)

\* The 'change' listener of matchMedia('(prefers-color-scheme: dark)'), run
\* with e.matches.
PrefersDarkHandler(st, matches) ==
  IF st.stored = NoItem
    THEN LET newTheme == IF matches THEN "theo" ELSE "light"
         IN  UpdateToggleButton(SetDataTheme(st, newTheme), newTheme)
    ELSE st

\* The system colour scheme changes; the listener runs where window.matchMedia
\* let the script register it.
PrefersDarkChange ==
  /\ prefersDark' = ~prefersDark
  /\ IF hasMatchMedia
     THEN ApplyThemeState(PrefersDarkHandler(ThemeState, prefersDark'))
     ELSE ApplyThemeState(ThemeState)
  /\ lastOp' = "prefchange"
  /\ UNCHANGED <<hasToggle, hasMatchMedia, clicks, lastClick>>

\* The page is loaded again: the markup's button is back to its authored
\* state and the script runs from the top; localStorage survives.
ThemeReload ==
  /\ ApplyThemeState(LoadThemeScript(
       [ThemeState EXCEPT !.label = "authored", !.pressed = "authored",
                          !.text = "authored"]))
  /\ lastOp' = "load"
  /\ UNCHANGED <<hasToggle, hasMatchMedia, prefersDark, clicks, lastClick>>

InitTheme ==
  /\ storageTheme \in {NoItem} \cup Themes
  /\ hasToggle \in BOOLEAN
  /\ hasMatchMedia \in BOOLEAN
  /\ prefersDark \in BOOLEAN
  /\ events = <<>>
  /\ clicks = 0
  /\ lastClick = None
  /\ lastOp = "load"
  /\ LET st == LoadThemeScript(
                 [attr |-> "absent", stored |-> storageTheme,
                  label |-> "authored", pressed |-> "authored",
                  text |-> "authored", events |-> <<>>]) IN
     /\ dataTheme = st.attr
     /\ ariaLabel = st.label
     /\ ariaPressed = st.pressed
     /\ toggleText = st.text

----------------------------------------------------------------------------
\* Canvas animations that read html[data-theme].

Animations == {"circuit", "ticker", "neural"}

SetOfValues(f) == {f[k] : k \in DOMAIN f}

RemoveAt(seq, i) == SubSeq(seq, 1, i - 1) \o SubSeq(seq, i + 1, Len(seq))

\* Sequences over S of length exactly n.
SeqsOfLen(S, n) == [1..n -> S]

\* The record of one draw(): the theme read while drawing, the theme at the
\* animation's previous draw, and every colour handed to the canvas context.
DrawnFrame(a, colors) ==
  [theme |-> dataTheme, prevTheme |-> frame[a].theme, colors |-> colors]

\* ---- Circuit board animation: theme-toggle.js lines 86-615 ----

\* getColors()
CircuitGetColors(theme) ==
  IF theme = "theo"
  THEN [trace |-> "rgba(0, 196, 212, 0.2)",
        traceHighlight |-> "rgba(0, 196, 212, 0.4)",
        node |-> "rgba(0, 196, 212, 0.5)",
        nodeGlow |-> "#00c4d4",
        pulse |-> "#00c4d4",
        pulseGlow |-> "#00c4d4",
        pulseAlt |-> "#8b5cf6"]
  ELSE [trace |-> "rgba(13, 92, 110, 0.15)",
        traceHighlight |-> "rgba(13, 92, 110, 0.3)",
        node |-> "rgba(13, 92, 110, 0.4)",
        nodeGlow |-> "#0d5c6e",
        pulse |-> "#00c4d4",
        pulseGlow |-> "#00c4d4",
        pulseAlt |-> "#612e8a"]

\* generateTraces(): config.traceCount traces, each with a total length and
\* a coin flip for its end node (every generated trace has more than two
\* points, so none is dropped).
GeneratedTraces ==
  SeqsOfLen([totalLength : 1..MaxTraceLen, hasNode : BOOLEAN], TraceCount)

\* The pulses createPulse() can push under `theme` onto traces `trs`.
NewPulses(theme, trs) ==
  { [traceIndex |-> ti, progress |-> 0, speed |-> 1, color |-> c,
     length |-> PulseLength] :
      ti \in 1..Len(trs),
      c \in {CircuitGetColors(theme).pulse, CircuitGetColors(theme).pulseAlt} }

\* createPulse()
CreatePulse(ps, trs, new) == IF Len(trs) = 0 THEN ps ELSE Append(ps, new)

\* The loop of updatePulses(), from the last pulse to the first.
RECURSIVE UpdateExistingPulses(_, _, _)
UpdateExistingPulses(ps, trs, i) ==
  IF i = 0 THEN ps
  ELSE LET moved == [ps[i] EXCEPT !.progress = @ + ps[i].speed] IN
       IF moved.progress > trs[moved.traceIndex].totalLength + moved.length
       THEN UpdateExistingPulses(RemoveAt(ps, i), trs, i - 1)
       ELSE UpdateExistingPulses([ps EXCEPT ![i] = moved], trs, i - 1)

\* updatePulses(): `due` is now - lastPulseTime > config.pulseInterval.
UpdatePulses(ps, trs, due, new) ==
  LET created == IF due THEN CreatePulse(ps, trs, new) ELSE ps IN
  UpdateExistingPulses(created, trs, Len(created))

\* draw(): the colours of drawTraces, drawPulses and drawNodes.
CircuitDrawColors(theme, trs, ps, near) ==
  LET c == CircuitGetColors(theme) IN
    {IF t \in near THEN c.traceHighlight ELSE c.trace : t \in 1..Len(trs)}
    \cup {ps[i].color : i \in 1..Len(ps)}
    \cup (IF ~isMobile THEN {c.nodeGlow} ELSE {})
    \cup UNION {{c.node, c.nodeGlow} : t \in {u \in 1..Len(trs) : trs[u].hasNode}}

\* animate(): one requestAnimationFrame callback.
CircuitAnimate ==
  /\ "circuit" \in rafLoops
  /\ IF ~circuitVisible
     THEN UNCHANGED <<pulses, frame>>
     ELSE \E due \in BOOLEAN, near \in SUBSET (1..Len(traces)) :
          \E new \in NewPulses(dataTheme, traces) :
            /\ due => Len(pulses) < MaxPulses
            /\ pulses' = UpdatePulses(pulses, traces, due, new)
            /\ frame' = [frame EXCEPT !["circuit"] =
                 DrawnFrame("circuit",
                            CircuitDrawColors(dataTheme, traces, pulses', near))]
  /\ UNCHANGED <<pageKind, isMobile, rafLoops, traces, circuitVisible, lines,
                 tickerVisible>>

CircuitResizeKeepsPulses ==
  /\ "circuit" \in rafLoops
  /\ traces' \in GeneratedTraces
  /\ pulses' = pulses
  /\ UNCHANGED <<pageKind, isMobile, rafLoops, circuitVisible, lines,
                 tickerVisible, frame>>

\* handleResize(): resize() regenerates the traces, then pulses = [].
CircuitResize ==
  /\ "circuit" \in rafLoops
  /\ traces' \in GeneratedTraces
  /\ pulses' = <<>>
  /\ UNCHANGED <<pageKind, isMobile, rafLoops, circuitVisible, lines,
                 tickerVisible, frame>>

\* The IntersectionObserver callback.
CircuitVisibility ==
  /\ "circuit" \in rafLoops
  /\ circuitVisible' = ~circuitVisible
  /\ UNCHANGED <<pageKind, isMobile, rafLoops, traces, pulses, lines,
                 tickerVisible, frame>>

\* ---- Text line ticker: pillar-filter.js lines 106-417 ----

\* getColors()
TickerGetColors(theme) ==
  IF theme = "theo"
  THEN [lines |-> <<"rgba(0, 196, 212, 0.6)", "rgba(0, 196, 212, 0.4)",
                    "rgba(139, 92, 246, 0.5)", "rgba(139, 92, 246, 0.3)",
                    "rgba(77, 212, 255, 0.4)">>,
        accent |-> "#00c4d4"]
  ELSE [lines |-> <<"rgba(13, 92, 110, 0.5)", "rgba(13, 92, 110, 0.3)",
                    "rgba(26, 143, 168, 0.4)", "rgba(0, 196, 212, 0.35)",
                    "rgba(52, 211, 153, 0.3)">>,
        accent |-> "#0d5c6e"]

\* createLine(startOffScreen): a line of width 1 at a random x, in a colour
\* of the current palette.
NewLines(theme, startOffScreen) ==
  { [x |-> x, width |-> 1, speed |-> 1, color |-> c] :
      x \in (IF startOffScreen THEN {-1} ELSE (-1)..TickerWidth),
      c \in SetOfValues(TickerGetColors(theme).lines) }

\* drawLine(): a line is painted only while its fade opacity is positive.
LineOpacityPositive(l) == l.x > 0 /\ l.x + l.width < TickerWidth

\* draw()
TickerDrawColors(ls) ==
  {ls[i].color : i \in {j \in 1..Len(ls) : LineOpacityPositive(ls[j])}}

\* animate(): updateLines() then draw().
TickerAnimate ==
  /\ "ticker" \in rafLoops
  /\ IF ~tickerVisible
     THEN UNCHANGED <<lines, frame>>
     ELSE \E fresh \in SeqsOfLen(NewLines(dataTheme, TRUE), Len(lines)) :
            /\ lines' = [i \in 1..Len(lines) |->
                 LET moved == [lines[i] EXCEPT !.x = @ + lines[i].speed] IN
                 IF moved.x > TickerWidth + 1 THEN fresh[i] ELSE moved]
            /\ frame' = [frame EXCEPT !["ticker"] =
                 DrawnFrame("ticker", TickerDrawColors(lines'))]
  /\ UNCHANGED <<pageKind, isMobile, rafLoops, traces, pulses, circuitVisible,
                 tickerVisible>>

\* handleResize(): resize() ends in initLines().
TickerResize ==
  /\ "ticker" \in rafLoops
  /\ lines' \in SeqsOfLen(NewLines(dataTheme, FALSE), LineCount)
  /\ UNCHANGED <<pageKind, isMobile, rafLoops, traces, pulses, circuitVisible,
                 tickerVisible, frame>>

TickerVisibility ==
  /\ "ticker" \in rafLoops
  /\ tickerVisible' = ~tickerVisible
  /\ UNCHANGED <<pageKind, isMobile, rafLoops, traces, pulses, circuitVisible,
                 lines, frame>>

\* ---- Neural network background: part_003 lines 207-450 ----

\* getColors(), with the base colour of the connection lines of draw()
NeuralGetColors(theme) ==
  IF theme = "theo"
  THEN [node |-> "rgba(0, 196, 212, 0.6)", nodeGlow |-> "#00c4d4",
        line |-> "rgba(0, 196, 212, 0.12)",
        nodeHover |-> "rgba(139, 92, 246, 0.9)", nodeHoverGlow |-> "#8b5cf6",
        lineStroke |-> "rgba(0, 196, 212, a)"]
  ELSE [node |-> "rgba(13, 92, 110, 0.4)", nodeGlow |-> "#1a8fa8",
        line |-> "rgba(13, 92, 110, 0.1)",
        nodeHover |-> "rgba(52, 211, 153, 0.8)", nodeHoverGlow |-> "#34d399",
        lineStroke |-> "rgba(13, 92, 110, a)"]

\* draw(): connections (if any two nodes are close), nodes, hover colours
\* for nodes near the mouse.
NeuralDrawColors(theme, connected, nearMouse, farFromMouse) ==
  LET c == NeuralGetColors(theme) IN
    (IF connected THEN {c.lineStroke} ELSE {})
    \cup (IF farFromMouse THEN {c.node, c.nodeGlow} ELSE {})
    \cup (IF nearMouse THEN {c.nodeHover, c.nodeHoverGlow} ELSE {})

\* animate(): updateNodes() then draw().
NeuralAnimate ==
  /\ "neural" \in rafLoops
  /\ \E connected \in BOOLEAN, nearMouse \in BOOLEAN, farFromMouse \in BOOLEAN :
       /\ nearMouse \/ farFromMouse
       /\ frame' = [frame EXCEPT !["neural"] =
            DrawnFrame("neural",
                       NeuralDrawColors(dataTheme, connected, nearMouse, farFromMouse))]
  /\ UNCHANGED <<pageKind, isMobile, rafLoops, traces, pulses, circuitVisible,
                 lines, tickerVisible>>

\* ---- The page with its animation running ----

\* The state init() of the page's animation leaves behind, its first
\* animate() call included.
InitCanvas ==
  /\ InitTheme
  /\ hasToggle
  /\ hasMatchMedia
  /\ ~prefersDark
  /\ pageKind \in {"project", "publication", "home"}
  /\ isMobile \in BOOLEAN
  /\ circuitVisible = TRUE
  /\ tickerVisible = TRUE
  /\ rafLoops = {CASE pageKind = "project" -> "circuit"
                   [] pageKind = "publication" -> "ticker"
                   [] OTHER -> "neural"}
  /\ IF pageKind = "project"
     THEN /\ traces \in GeneratedTraces
          /\ \E first \in SeqsOfLen(NewPulses(dataTheme, traces), InitialPulses),
                due \in BOOLEAN, near \in SUBSET (1..TraceCount) :
             \E new \in NewPulses(dataTheme, traces) :
               pulses = UpdatePulses(first, traces, due, new)
     ELSE traces = <<>> /\ pulses = <<>>
  /\ IF pageKind = "publication"
     THEN lines \in SeqsOfLen(NewLines(dataTheme, FALSE), LineCount)
     ELSE lines = <<>>
  /\ frame = [a \in Animations |->
       [theme |-> dataTheme, prevTheme |-> dataTheme,
        colors |->
          CASE a \notin rafLoops -> {}
            [] a = "circuit" ->
                 CircuitDrawColors(dataTheme, traces, pulses, {})
            [] a = "ticker" -> TickerDrawColors(lines)
            [] OTHER -> NeuralDrawColors(dataTheme, FALSE, FALSE, TRUE)]]

\* The canvas variables of a page on which no animation is modelled.
NoCanvas ==
  /\ pageKind = "other"
  /\ isMobile = FALSE
  /\ rafLoops = {}
  /\ traces = <<>>
  /\ pulses = <<>>
  /\ circuitVisible = TRUE
  /\ lines = <<>>
  /\ tickerVisible = TRUE
  /\ frame = [a \in Animations |-> None]

----------------------------------------------------------------------------
\* Search overlay: part_003 lines 6-190.

UpperLetters == <<"A","B","C","D","E","F","G","H","I","J","K","L","M",
                  "N","O","P","Q","R","S","T","U","V","W","X","Y","Z">>
LowerLetters == <<"a","b","c","d","e","f","g","h","i","j","k","l","m",
                  "n","o","p","q","r","s","t","u","v","w","x","y","z">>

\* The case mappings as lookup tables over the letters.
LowerOf == [c \in {UpperLetters[i] : i \in 1..Len(UpperLetters)} |->
              LowerLetters[CHOOSE i \in 1..Len(UpperLetters) : UpperLetters[i] = c]]
UpperOf == [c \in {LowerLetters[i] : i \in 1..Len(LowerLetters)} |->
              UpperLetters[CHOOSE i \in 1..Len(LowerLetters) : LowerLetters[i] = c]]

LowerChar(c) == IF c \in DOMAIN LowerOf THEN LowerOf[c] ELSE c
UpperChar(c) == IF c \in DOMAIN UpperOf THEN UpperOf[c] ELSE c

\* String.prototype.toLowerCase
ToLowerCase(s) == [i \in 1..Len(s) |-> LowerChar(s[i])]

\* String.prototype.includes
Includes(hay, needle) ==
  \E i \in 0..(Len(hay) - Len(needle)) : SubSeq(hay, i + 1, i + Len(needle)) = needle

\* Array.prototype.join
RECURSIVE Join(_, _)
Join(parts, sep) ==
  IF parts = <<>> THEN <<>>
  ELSE IF Len(parts) = 1 THEN parts[1]
  ELSE parts[1] \o sep \o Join(Tail(parts), sep)

\* slice(from, to) and substring(from, to) with 0 <= from <= to
Slice(s, from, to) == SubSeq(s, from + 1, IF to < Len(s) THEN to ELSE Len(s))

\* item[f] || fallback: an absent key and an empty string are both falsy.
Truthy(item, f) == f \in DOMAIN item /\ item[f] # <<>>
FieldOr(item, f, fallback) == IF Truthy(item, f) THEN item[f] ELSE fallback

\* getBaseUrl()
GetBaseUrl == IF inSubdir THEN <<".", ".", "/">> ELSE <<>>

TypeResearcher == <<"r","e","s","e","a","r","c","h","e","r">>
TypeProject == <<"p","r","o","j","e","c","t">>
TypePublication == <<"p","u","b","l","i","c","a","t","i","o","n">>

\* Object.assign({}, item, { type: ... })
WithType(item, type) ==
  [k \in DOMAIN item \cup {"type"} |-> IF k = "type" THEN type ELSE item[k]]

TagAll(items, type) == [i \in 1..Len(items) |-> WithType(items[i], type)]

\* What loadData() stores for the three fetched arrays.
LoadedData(researchers, projects, publications) ==
  [researchers |-> TagAll(researchers, TypeResearcher),
   projects |-> TagAll(projects, TypeProject),
   publications |-> TagAll(publications, TypePublication)]

SearchableFields == <<"name", "title", "about", "abstract", "journal", "pillar">>

SearchableText(item) ==
  ToLowerCase(Join([i \in 1..Len(SearchableFields) |-> FieldOr(item, SearchableFields[i], <<>>)],
                   <<" ">>))

Categories == <<"researchers", "projects", "publications">>

RECURSIVE ScanCategories(_, _, _)
ScanCategories(cats, data, needle) ==
  IF cats = <<>> THEN <<>>
  ELSE SelectSeq(data[Head(cats)], LAMBDA item : Includes(SearchableText(item), needle))
         \o ScanCategories(Tail(cats), data, needle)

\* search() without the toLowerCase() of the query.
SearchCaseSensitive(q, data) ==
  IF Len(q) < MinQueryLength THEN <<>>
  ELSE Slice(ScanCategories(Categories, data, q), 0, MaxResults)

\* search(query)
Search(q, data) ==
  IF Len(q) < MinQueryLength THEN <<>>
  ELSE LET lowerQuery == ToLowerCase(q) IN
       Slice(ScanCategories(Categories, data, lowerQuery), 0, MaxResults)

\* One DOM element of a rendered result: its class, the variable part of
\* its class (the pillar of a badge) and its text.
Element(class, variant, text) == [class |-> class, variant |-> variant, text |-> text]

Untitled == <<"U","n","t","i","t","l","e","d">>
Ellipsis == <<".", ".", ".">>

\* item.type.charAt(0).toUpperCase() + item.type.slice(1)
TypeLabel(type) == <<UpperChar(type[1])>> \o Tail(type)

ResultTitle(item) == FieldOr(item, "name", FieldOr(item, "title", Untitled))

ResultSubtitle(item) ==
  IF Truthy(item, "title") /\ Truthy(item, "name") THEN item.title
  ELSE FieldOr(item, "journal", <<>>)

ResultDescription(item) ==
  Slice(FieldOr(item, "about", FieldOr(item, "abstract", <<>>)), 0, DescriptionLimit)

ResultPath(item) == GetBaseUrl \o FieldOr(item, "path", <<>>)

\* The anchor displayResults() builds for one result.
ResultAnchor(item) ==
  [href |-> ResultPath(item),
   children |->
     <<Element("search-result-type", <<>>, TypeLabel(item.type))>>
     \o (IF Truthy(item, "pillar")
           THEN <<Element("pillar-badge", ToLowerCase(item.pillar), item.pillar)>>
           ELSE <<>>)
     \o <<Element("search-result-title", <<>>, ResultTitle(item))>>
     \o (IF ResultSubtitle(item) # <<>>
           THEN <<Element("search-result-subtitle", <<>>, ResultSubtitle(item))>>
           ELSE <<>>)
     \o (IF ResultDescription(item) # <<>>
           THEN <<Element("search-result-description", <<>>,
                          ResultDescription(item) \o Ellipsis)>>
           ELSE <<>>)]

HintPane == [kind |-> "search-hint", items |-> <<>>]

\* displayResults(results)
DisplayResults(res) ==
  IF Len(res) = 0 THEN [kind |-> "search-no-results", items |-> <<>>]
  ELSE [kind |-> "results", items |-> [i \in 1..Len(res) |-> ResultAnchor(res[i])]]

\* The records the data files of the model can hold; between them every
\* optional field is present in one record and left out of another.
ResearcherPool ==
  { [name |-> <<"A","b">>, title |-> <<"M","D">>, path |-> <<"r","1">>],
    [about |-> <<"a","b">>] }
ProjectPool ==
  { [title |-> <<"a","b">>, abstract |-> <<"B","a">>,
     pillar |-> <<"P","R","E","D","I","C","T">>, path |-> <<"p","1">>] }
PublicationPool ==
  { [title |-> <<"a","b">>, journal |-> <<"A">>, abstract |-> <<"b">>,
     path |-> <<"u","1">>] }

ArraysOf(pool) == UNION {[1..n -> pool] : n \in 0..MaxPerCategory}

Queries ==
  { <<"a","b">>, <<"A","B">>, <<"b"," ","a">>, <<"p","r">>, <<"z","z">>, <<"a">>, <<>> }

\* loadData(): the three files are fetched once; a failed fetch yields [].
SearchLoadData ==
  /\ allData = None
  /\ \E rs \in ArraysOf(ResearcherPool), ps \in ArraysOf(ProjectPool),
        us \in ArraysOf(PublicationPool) :
       allData' = LoadedData(rs, ps, us)
  /\ UNCHANGED <<inSubdir, query, searched, results, pane>>

\* search(query) followed by displayResults(results), on loaded data.
SearchRun ==
  /\ allData # None
  /\ \E q \in Queries :
       /\ query' = q
       /\ searched' = TRUE
       /\ results' = Search(q, allData)
       /\ pane' = DisplayResults(results')
  /\ UNCHANGED <<inSubdir, allData>>

InitSearch ==
  /\ inSubdir \in BOOLEAN
  /\ allData = None
  /\ query = <<>>
  /\ searched = FALSE
  /\ results = <<>>
  /\ pane = HintPane

\* The search variables of a page on which the overlay is never used.
NoSearch ==
  /\ inSubdir = FALSE
  /\ allData = None
  /\ query = <<>>
  /\ searched = FALSE
  /\ results = <<>>
  /\ pane = HintPane

\* The theme variables of a page on which the toggle is never used.
NoTheme ==
  /\ dataTheme = "light"
  /\ storageTheme = NoItem
  /\ hasToggle = FALSE
  /\ hasMatchMedia = FALSE
  /\ prefersDark = FALSE
  /\ ariaLabel = "authored"
  /\ ariaPressed = "authored"
  /\ toggleText = "authored"
  /\ events = <<>>
  /\ clicks = 0
  /\ lastClick = None
  /\ lastOp = "load"

----------------------------------------------------------------------------
\* Pillar filter: pillar-filter.js lines 6-92.
\* A badge's text is a sequence of words and whitespace characters.

Whitespace == {" ", "\n", "\t"}

\* String.prototype.trim
RECURSIVE TrimStart(_)
TrimStart(text) ==
  IF text # <<>> /\ Head(text) \in Whitespace THEN TrimStart(Tail(text)) ELSE text

RECURSIVE TrimEnd(_)
TrimEnd(text) ==
  IF text # <<>> /\ text[Len(text)] \in Whitespace
    THEN TrimEnd(SubSeq(text, 1, Len(text) - 1))
    ELSE text

Trim(text) == TrimEnd(TrimStart(text))

\* The data-filter values of the four buttons, in document order.
FilterButtons == <<"all", "PREDICT", "PREVENT", "PERSONALIZE">>
FilterNames == {FilterButtons[i] : i \in 1..Len(FilterButtons)}

\* pathname.includes(part)
PathIncludes(path, part) == \E i \in 1..Len(path) : path[i] = part

\* Lines 10-13: the script goes on only for these paths.
IsProjectsIndex(path) ==
  LET isProjectsPage == PathIncludes(path, "/projects/") IN
  ~(~isProjectsPage \/ ~PathIncludes(path, "index.html"))

\* Lines 16-20
HasPillars(its) == \E i \in 1..Len(its) : its[i].hasBadge

\* badge ? badge.textContent.trim() : null, compared with the filter
PillarIs(item, filter) == item.hasBadge /\ Trim(item.text) = <<filter>>

\* Lines 58-69
FilterItem(item, filter) ==
  IF filter = "all" \/ PillarIs(item, filter)
    THEN [item EXCEPT !.display = "block"]
    ELSE [item EXCEPT !.display = "none"]

\* The page state the filter script works on, as one record.
FilterState ==
  [items |-> listItems, active |-> active, pillar |-> urlPillar, navigation |-> navigation,
   installed |-> filterInstalled, lastFilter |-> lastFilter]

\* The click listener with the class removal of line 54 left out.
FilterClickHandlerKeepActive(st, filter) ==
  [st EXCEPT !.active = st.active \cup {filter},
             !.items = [i \in 1..Len(st.items) |-> FilterItem(st.items[i], filter)],
             !.pillar = IF filter = "all" THEN NoItem ELSE filter,
             !.navigation = "pushState",
             !.lastFilter = filter]

\* Lines 50-79: the click listener of the button with data-filter = filter.
FilterClickHandler(st, filter) ==
  [st EXCEPT !.active = (st.active \ FilterNames) \cup {filter},
             !.items = [i \in 1..Len(st.items) |-> FilterItem(st.items[i], filter)],
             !.pillar = IF filter = "all" THEN NoItem ELSE filter,
             !.navigation = "pushState",
             !.lastFilter = filter]

\* Values for which `[data-filter="${value}"]` is not a valid selector, so
\* that querySelector throws and the script ends there.
InvalidSelectorValues == {"\"]"}

\* Line 86: the button found for a pillar value, NoItem when there is none.
QueryFilterButton(value) ==
  IF value \in InvalidSelectorValues THEN NoItem
  ELSE IF value \in FilterNames THEN value
  ELSE NoItem

\* The script without lines 82-90.
FilterScriptIgnoreUrl(st, path) ==
  IF ~IsProjectsIndex(path) \/ ~HasPillars(st.items) THEN st
  ELSE [st EXCEPT !.installed = TRUE, !.active = {"all"}]

\* The whole script, run on a freshly loaded document.
FilterScript(st, path) ==
  IF ~IsProjectsIndex(path) \/ ~HasPillars(st.items) THEN st
  ELSE LET built == [st EXCEPT !.installed = TRUE, !.active = {"all"}]
           initialFilter == st.pillar IN
       IF initialFilter # NoItem /\ initialFilter # ""
            /\ QueryFilterButton(initialFilter) # NoItem
         THEN FilterClickHandler(built, QueryFilterButton(initialFilter))
         ELSE built

\* Writes a state record back to the variables.
ApplyFilterState(st) ==
  /\ listItems' = st.items
  /\ active' = st.active
  /\ urlPillar' = st.pillar
  /\ navigation' = st.navigation
  /\ filterInstalled' = st.installed
  /\ lastFilter' = st.lastFilter

\* The user clicks a filter button; the buttons are in the document only
\* if the script inserted them before a .list element.
FilterClick ==
  /\ filterInstalled
  /\ hasList
  /\ \E i \in 1..Len(FilterButtons) :
       ApplyFilterState(FilterClickHandler(FilterState, FilterButtons[i]))
  /\ filterOp' = "click"
  /\ UNCHANGED <<pathname, hasList, loadedPillar>>

\* The document as authored: every item shown, no filter buttons.
FreshDocument(its, pillar) ==
  [items |-> [i \in 1..Len(its) |-> [its[i] EXCEPT !.display = ""]],
   active |-> {}, pillar |-> pillar, navigation |-> "load",
   installed |-> FALSE, lastFilter |-> NoItem]

\* The page is loaded again with its current URL.
FilterReload ==
  /\ ApplyFilterState(FilterScript(FreshDocument(listItems, urlPillar), pathname))
  /\ filterOp' = "load"
  /\ loadedPillar' = urlPillar
  /\ UNCHANGED <<pathname, hasList>>

Pathnames ==
  { <<"/projects/", "index.html">>, <<"/projects/">>, <<"/projects/", "1-predict.html">>,
    <<"/publications/", "index.html">> }

PillarValues == FilterNames \cup {"predict", "FOO", ""} \cup InvalidSelectorValues

BadgePool ==
  { [hasBadge |-> FALSE, text |-> <<>>, display |-> ""],
    [hasBadge |-> TRUE, text |-> <<"PREDICT">>, display |-> ""],
    [hasBadge |-> TRUE, text |-> <<"\n", " ", "PREVENT", " ">>, display |-> ""],
    [hasBadge |-> TRUE, text |-> <<"Predict">>, display |-> ""] }

InitFilter ==
  /\ pathname \in Pathnames
  /\ hasList \in BOOLEAN
  /\ loadedPillar \in {NoItem} \cup PillarValues
  /\ filterOp = "load"
  /\ \E its \in UNION {[1..n -> BadgePool] : n \in 0..MaxItems} :
       LET st == FilterScript(FreshDocument(its, loadedPillar), pathname) IN
       /\ listItems = st.items
       /\ active = st.active
       /\ urlPillar = st.pillar
       /\ navigation = st.navigation
       /\ filterInstalled = st.installed
       /\ lastFilter = st.lastFilter

\* The filter variables of a page that does not load the script.
NoFilter ==
  /\ pathname = <<"/", "index.html">>
  /\ urlPillar = NoItem
  /\ navigation = "load"
  /\ hasList = FALSE
  /\ listItems = <<>>
  /\ filterInstalled = FALSE
  /\ active = {}
  /\ filterOp = "load"
  /\ lastFilter = NoItem
  /\ loadedPillar = NoItem

----------------------------------------------------------------------------
\* 3D scene: part_005.

ContextOutcomes == {"context", "null", "throws"}

\* What the script can find: #three-container, window.WebGLRenderingContext,
\* the outcome of getContext for the two context names, window.THREE.  A
\* browser without WebGLRenderingContext hands out no WebGL context.
SceneEnvs ==
  { e \in [container : BOOLEAN, ctor : BOOLEAN, webgl : ContextOutcomes,
           experimental : ContextOutcomes, three : BOOLEAN] :
      ~e.ctor => e.webgl = "null" /\ e.experimental = "null" }

\* Lines 5-13: canUseWebGL().  && and || short-circuit; a throwing
\* getContext lands in the catch.
CanUseWebGL(env) ==
  IF ~env.ctor THEN FALSE
  ELSE IF env.webgl = "throws" THEN FALSE
  ELSE IF env.webgl = "context" THEN TRUE
  ELSE IF env.experimental = "throws" THEN FALSE
  ELSE env.experimental = "context"

\* Line 15 with the THREE test dropped.
CannotUseSceneIgnoringThree(env) == ~CanUseWebGL(env)

\* Line 15
CannotUseScene(env) == ~CanUseWebGL(env) \/ ~env.three

SceneEvents == {"mousemove", "scroll", "resize"}

\* The script part_005, run with what it finds.
SceneScript(env) ==
  /\ ~sceneLoaded
  /\ sceneLoaded' = TRUE
  /\ sceneEnv' = env
  /\ IF ~env.container
       THEN UNCHANGED <<bodyClasses, rendererCreated, sceneListeners, renderCount,
                        rafPending, started>>
       ELSE IF CannotUseScene(env)
         THEN /\ bodyClasses' = bodyClasses \cup {"no-webgl"}
              /\ UNCHANGED <<rendererCreated, sceneListeners, renderCount, rafPending,
                             started>>
         ELSE /\ bodyClasses' = bodyClasses \cup {"webgl-ready"}
              /\ rendererCreated' = TRUE
              /\ sceneListeners' = sceneListeners \cup SceneEvents
              /\ renderCount' = renderCount + 1
              /\ IF prefersReduced
                   THEN UNCHANGED <<rafPending, started>>
                   ELSE /\ rafPending' = rafPending \cup {"scene"}
                        /\ started' = started \cup {"scene"}
  /\ UNCHANGED <<prefersReduced, timerPending, coreRunning, impactObserved, sceneHandled>>

\* Lines 95-106: animate() as a requestAnimationFrame callback.
SceneFrame ==
  /\ "scene" \in rafPending
  /\ renderCount < MaxRenders
  /\ renderCount' = renderCount + 1
  /\ UNCHANGED <<prefersReduced, nextScript, rafPending, timerPending, started,
                 coreRunning, impactObserved, sceneEnv, sceneLoaded, bodyClasses,
                 rendererCreated, sceneListeners, sceneHandled>>

\* Lines 77-93: a mousemove, scroll or resize listener runs; none renders.
SceneEvent ==
  /\ \E ev \in sceneListeners : sceneHandled' = sceneHandled \cup {ev}
  /\ UNCHANGED <<prefersReduced, nextScript, rafPending, timerPending, started,
                 coreRunning, impactObserved, sceneEnv, sceneLoaded, bodyClasses,
                 rendererCreated, sceneListeners, renderCount>>

SceneLoad ==
  /\ \E env \in SceneEnvs : SceneScript(env)
  /\ UNCHANGED nextScript

NoSceneEnv == [container |-> FALSE, ctor |-> FALSE, webgl |-> "null",
               experimental |-> "null", three |-> FALSE]

InitScene ==
  /\ sceneEnv = NoSceneEnv
  /\ sceneLoaded = FALSE
  /\ bodyClasses = {}
  /\ rendererCreated = FALSE
  /\ sceneListeners = {}
  /\ sceneHandled = {}
  /\ renderCount = 0

----------------------------------------------------------------------------
\* Page load of the animation scripts under prefers-reduced-motion.

\* The scripts of a page, in the order they execute.
ScriptOrder ==
  <<"circuit", "animationCore", "ticker", "clickPulse", "tetris", "neural",
    "neuralEnhanced", "neuralLegacy", "helix", "sectionDividers", "blobDividers",
    "animations", "scene">>

ScriptIndex(name) == CHOOSE i \in 1..Len(ScriptOrder) : ScriptOrder[i] = name

\* The script `name` is the next to execute, and executes.
RunScript(name) ==
  /\ nextScript = ScriptIndex(name)
  /\ nextScript' = nextScript + 1

\* requestAnimationFrame / setTimeout chains started by a script.
StartChains(rafs, timers) ==
  /\ rafPending' = rafPending \cup rafs
  /\ timerPending' = timerPending \cup timers
  /\ started' = started \cup rafs \cup timers

\* The guard shared by the page-header canvases: element and page test,
\* then the reduced-motion return, then init() -> animate().
HeaderCanvasChains(name, hasContainer, isPage, reduced) ==
  IF ~hasContainer \/ ~isPage THEN {}
  ELSE IF reduced THEN {}
  ELSE {name}

\* theme-toggle.js lines 90-96 and 613
LoadCircuit ==
  /\ RunScript("circuit")
  /\ \E hasHeader \in BOOLEAN, isProjectsPage \in BOOLEAN :
       StartChains(HeaderCanvasChains("circuit", hasHeader, isProjectsPage, prefersReduced), {})
  /\ UNCHANGED <<prefersReduced, coreRunning, impactObserved, sceneVars>>

\* theme-toggle.js lines 622-969: AnimationCore is defined, no loop is made.
LoadAnimationCore ==
  /\ RunScript("animationCore")
  /\ UNCHANGED <<prefersReduced, rafPending, timerPending, started, coreRunning,
                 impactObserved, sceneVars>>

\* pillar-filter.js lines 110-116 and 415
LoadTicker ==
  /\ RunScript("ticker")
  /\ \E hasHeader \in BOOLEAN, isPublicationsPage \in BOOLEAN :
       StartChains(HeaderCanvasChains("ticker", hasHeader, isPublicationsPage, prefersReduced), {})
  /\ UNCHANGED <<prefersReduced, coreRunning, impactObserved, sceneVars>>

\* part_000: the click pulse binds listeners; its only timer removes a ripple.
LoadClickPulse ==
  /\ RunScript("clickPulse")
  /\ UNCHANGED <<prefersReduced, rafPending, timerPending, started, coreRunning,
                 impactObserved, sceneVars>>

\* part_002 lines 17-23 and 438
LoadTetris ==
  /\ RunScript("tetris")
  /\ \E hasHeader \in BOOLEAN, isProjectsPage \in BOOLEAN :
       StartChains(HeaderCanvasChains("tetris", hasHeader, isProjectsPage, prefersReduced), {})
  /\ UNCHANGED <<prefersReduced, coreRunning, impactObserved, sceneVars>>

\* The hero canvases: .hero test first, reduced-motion return before init().
HeroCanvasChains(name, hasHero, reduced) ==
  IF ~hasHero THEN {}
  ELSE IF reduced THEN {}
  ELSE {name}

\* part_003 lines 211-212 and 443-448
LoadNeural ==
  /\ RunScript("neural")
  /\ \E hasHero \in BOOLEAN :
       StartChains(HeroCanvasChains("neural", hasHero, prefersReduced), {})
  /\ UNCHANGED <<prefersReduced, coreRunning, impactObserved, sceneVars>>

\* part_003 lines 469-474: AnimationCore.prefersReducedMotion if AnimationCore
\* is defined, then matchMedia itself.
NeuralEnhancedChains(hasHero, coreDefined, reduced) ==
  IF ~hasHero THEN {}
  ELSE IF coreDefined /\ reduced THEN {}
  ELSE IF reduced THEN {}
  ELSE {"neuralEnhanced"}

LoadNeuralEnhanced ==
  /\ RunScript("neuralEnhanced")
  /\ \E hasHero \in BOOLEAN :
       StartChains(NeuralEnhancedChains(hasHero,
                     nextScript > ScriptIndex("animationCore"), prefersReduced), {})
  /\ UNCHANGED <<prefersReduced, coreRunning, impactObserved, sceneVars>>

\* part_004 lines 10-11 and 171-176
LoadNeuralLegacy ==
  /\ RunScript("neuralLegacy")
  /\ \E hasHero \in BOOLEAN :
       StartChains(HeroCanvasChains("neuralLegacy", hasHero, prefersReduced), {})
  /\ UNCHANGED <<prefersReduced, coreRunning, impactObserved, sceneVars>>

\* dna-helix.js lines 17-23 and 446
LoadHelix ==
  /\ RunScript("helix")
  /\ \E hasHeader \in BOOLEAN, isResearchersPage \in BOOLEAN :
       StartChains(HeaderCanvasChains("helix", hasHeader, isResearchersPage, prefersReduced), {})
  /\ UNCHANGED <<prefersReduced, coreRunning, impactObserved, sceneVars>>

\* section-dividers.js line 16, then one loop per particle divider.
SectionDividerChains(hasDivider, reduced) ==
  IF reduced THEN {}
  ELSE IF hasDivider THEN {"sectionDividers"}
  ELSE {}

LoadSectionDividers ==
  /\ RunScript("sectionDividers")
  /\ \E hasDivider \in BOOLEAN :
       StartChains(SectionDividerChains(hasDivider, prefersReduced), {})
  /\ UNCHANGED <<prefersReduced, coreRunning, impactObserved, sceneVars>>

\* blob-dividers.js lines 17-23 and 315
BlobDividerChains(isAboutOrJoinPage, reduced) ==
  IF ~isAboutOrJoinPage THEN {}
  ELSE IF reduced THEN {}
  ELSE {"blobDividers"}

LoadBlobDividers ==
  /\ RunScript("blobDividers")
  /\ \E isAboutOrJoinPage \in BOOLEAN :
       StartChains(BlobDividerChains(isAboutOrJoinPage, prefersReduced), {})
  /\ UNCHANGED <<prefersReduced, coreRunning, impactObserved, sceneVars>>

\* animations.js lines 99-127: tick() is called whenever #typed-text exists.
TypedTextChains(hasTypedEl, reduced) == IF hasTypedEl THEN {"typedText"} ELSE {}

\* animations.js lines 130-183
ParticleCanvasChains(hasCanvas, reduced) ==
  IF hasCanvas /\ ~reduced THEN {"particleCanvas"} ELSE {}

\* animations.js, the whole script; line 250 observes the .impact-value elements.
LoadAnimations ==
  /\ RunScript("animations")
  /\ \E hasTypedEl \in BOOLEAN, hasCanvas \in BOOLEAN, hasImpact \in BOOLEAN :
       /\ StartChains(ParticleCanvasChains(hasCanvas, prefersReduced),
                      TypedTextChains(hasTypedEl, prefersReduced))
       /\ impactObserved' = hasImpact
  /\ UNCHANGED <<prefersReduced, coreRunning, sceneVars>>

\* part_005 on the page being loaded.
LoadScene ==
  /\ RunScript("scene")
  /\ \E env \in {e \in SceneEnvs : e.ctor /\ e.webgl = "context" /\ e.three} :
       SceneScript(env)

\* animations.js lines 226-248: an observed .impact-value element scrolls
\* into view; the count-up chain starts and the element is unobserved.
ImpactIntersect ==
  /\ impactObserved
  /\ impactObserved' = FALSE
  /\ StartChains({"countUp"}, {})
  /\ UNCHANGED <<prefersReduced, nextScript, coreRunning, sceneVars>>

\* animations.js lines 236-241: a count-up frame; the chain ends at progress 1.
CountUpFrame ==
  /\ "countUp" \in rafPending
  /\ \E done \in BOOLEAN :
       rafPending' = IF done THEN rafPending \ {"countUp"} ELSE rafPending
  /\ UNCHANGED <<prefersReduced, nextScript, timerPending, started, coreRunning,
                 impactObserved, sceneVars>>

\* animations.js lines 106-125: tick() runs and sets the next timeout.
TypedTextTick ==
  /\ "typedText" \in timerPending
  /\ timerPending' = timerPending
  /\ UNCHANGED <<prefersReduced, nextScript, rafPending, started, coreRunning,
                 impactObserved, sceneVars>>

\* theme-toggle.js lines 760-766: start() of an AnimationCore loop.
CoreStart ==
  /\ nextScript > ScriptIndex("animationCore")
  /\ IF prefersReduced \/ coreRunning
       THEN UNCHANGED <<coreRunning, rafPending, started>>
       ELSE /\ coreRunning' = TRUE
            /\ rafPending' = rafPending \cup {"core"}
            /\ started' = started \cup {"core"}
  /\ UNCHANGED <<prefersReduced, nextScript, timerPending, impactObserved, sceneVars>>

\* theme-toggle.js lines 767-773: stop()
CoreStop ==
  /\ nextScript > ScriptIndex("animationCore")
  /\ coreRunning' = FALSE
  /\ rafPending' = rafPending \ {"core"}
  /\ UNCHANGED <<prefersReduced, nextScript, timerPending, started, impactObserved,
                 sceneVars>>

InitMotion ==
  /\ prefersReduced \in BOOLEAN
  /\ nextScript = 1
  /\ rafPending = {}
  /\ timerPending = {}
  /\ started = {}
  /\ coreRunning = FALSE
  /\ impactObserved = FALSE
  /\ InitScene

\* The variables of this part on a page whose animation scripts are not followed.
NoMotion ==
  /\ prefersReduced = FALSE
  /\ nextScript = 1
  /\ rafPending = {}
  /\ timerPending = {}
  /\ started = {}
  /\ coreRunning = FALSE
  /\ impactObserved = FALSE
  /\ InitScene

----------------------------------------------------------------------------
\* FitText (part_001): scales a card title down until it fits on one line.
\* Lengths and font sizes are held in hundredths of a pixel.

Px(n) == 100 * n

\* ctx.measureText(text).width for a text of len glyphs at font size `size`:
\* proportional to both, a glyph being half an em wide.
MeasureTextWidth(len, size) == (len * size) \div 2

\* fitElement(): the container width, with the element's own width or 200 px
\* standing in for a container that has none.
ContainerWidth(el) ==
  IF el.clientWidth <= 0
    THEN (IF el.offsetWidth # 0 THEN el.offsetWidth ELSE Px(FallbackContainerWidth))
    ELSE el.clientWidth

\* fitElement(): availableWidth.
AvailableWidth(el) ==
  LET raw == ContainerWidth(el) - el.containerPadding - el.box
      cut == (raw * (100 - PaddingPercent)) \div 100
  IN  IF cut <= 0 THEN Px(FallbackAvailableWidth) ELSE cut

\* getOriginalFontSize(): the cached size, else the size the stylesheet gives.
GetOriginalFontSize(el, st) ==
  IF st.originalFontSize # <<>> THEN st.originalFontSize[1] ELSE el.cssFontSize

\* fitElement(element), as a function of the layout and of what FitText wrote
\* on the element before.
FitElement(el, st) ==
  IF ~el.offsetParent \/ el.textLen = 0
    THEN st
    ELSE
      LET availableWidth == AvailableWidth(el)
          originalSize == GetOriginalFontSize(el, st)
          textWidth == MeasureTextWidth(el.textLen, originalSize)
          fits == availableWidth >= textWidth          \* scale >= 1
          scaled == (originalSize * availableWidth) \div textWidth
          newSize == IF scaled < Px(MinFontSize) THEN Px(MinFontSize) ELSE scaled
      IN  [ nowrap |-> TRUE,
            originalFontSize |-> <<originalSize>>,
            fontSize |-> IF fits THEN <<>> ELSE <<newSize>>,
            fitTextApplied |-> IF fits THEN "false" ELSE "true" ]

\* The font size the browser renders the element with.
AppliedFontSize(el, st) ==
  IF st.fontSize # <<>> THEN st.fontSize[1] ELSE el.cssFontSize

Unfitted ==
  [ nowrap |-> FALSE, originalFontSize |-> <<>>, fontSize |-> <<>>,
    fitTextApplied |-> NoItem ]

TextLengths == 0 .. MaxTextLen
ClientWidths == {0, Px(20), Px(60), Px(200)}
ContainerPaddings == {0, Px(8)}

FitLayouts ==
  [ offsetParent : BOOLEAN,            \* the element is displayed
    textLen : TextLengths,             \* glyphs of textContent.trim()
    clientWidth : ClientWidths,        \* parentElement.clientWidth
    offsetWidth : {0, Px(50)},
    containerPadding : ContainerPaddings,  \* left + right padding of the container
    box : {0, Px(4)},                  \* paddings and margins of the element
    cssFontSize : {Px(16), Px(32)} ]

\* fitAllElements(): from init(), fonts.ready, the 500 ms timer or the
\* mutation observer's timer.
FitAllElements ==
  /\ fitStyle' = FitElement(fitEl, fitStyle)
  /\ fitRan' = (fitEl.offsetParent /\ fitEl.textLen > 0)
  /\ UNCHANGED <<fitEl, resizeTimeout>>

\* The window is resized: the container gets another width and handleResize()
\* (re)arms its debounce timer.
HandleResize ==
  /\ \E w \in ClientWidths \ {fitEl.clientWidth} :
       fitEl' = [fitEl EXCEPT !.clientWidth = w]
  /\ resizeTimeout' = TRUE
  /\ fitRan' = FALSE
  /\ UNCHANGED fitStyle

\* The debounce timer of handleResize() fires: cached sizes are dropped and
\* every element is fitted again.
ResizeTimeout ==
  /\ resizeTimeout
  /\ fitStyle' = FitElement(fitEl,
                   [fitStyle EXCEPT !.originalFontSize = <<>>, !.fontSize = <<>>])
  /\ fitRan' = (fitEl.offsetParent /\ fitEl.textLen > 0)
  /\ resizeTimeout' = FALSE
  /\ UNCHANGED fitEl

\* The content of the title is replaced (nodes added under document.body); the
\* mutation observer then schedules fitAllElements.
FitMutation ==
  /\ \E n \in TextLengths \ {fitEl.textLen} :
       fitEl' = [fitEl EXCEPT !.textLen = n]
  /\ fitRan' = FALSE
  /\ UNCHANGED <<fitStyle, resizeTimeout>>

InitFit ==
  /\ fitEl \in FitLayouts
  /\ fitStyle = Unfitted
  /\ resizeTimeout = FALSE
  /\ fitRan = FALSE

\* The variables of this part on a page without fitted titles.
NoFit ==
  /\ fitEl = [ offsetParent |-> FALSE, textLen |-> 0, clientWidth |-> 0,
               offsetWidth |-> 0, containerPadding |-> 0, box |-> 0,
               cssFontSize |-> Px(16) ]
  /\ fitStyle = Unfitted
  /\ resizeTimeout = FALSE
  /\ fitRan = FALSE

----------------------------------------------------------------------------
\* The site build: Tabular Data Source -> Normalizer -> Validator -> Page
\* Renderer.  A sheet is a sequence of rows, a row a record of cells, a cell a
\* string ("" when blank).

EntityTypes == <<"researcher", "project", "publication">>
Pillars == {"predictive", "preventive", "personalized"}
Unspecified == "unspecified"
Numerals == {"1", "2", "99"}

SeqsUpTo(S, n) == UNION { [1 .. k -> S] : k \in 0 .. n }

ResearcherRows == [ id : {"1", "2"}, name : {"A"}, lead : {"yes", ""} ]
ProjectRows ==
  [ id : {"1", "2"}, title : {"P"}, pillar : {"predictive"}, researcher : {"1", "99"} ]
    \cup [ id : {"2"}, title : {"P"}, pillar : {"bogus", ""}, researcher : {"1"} ]
PublicationRows ==
  [ id : {"1"}, title : {"T", ""}, project : {"1", "99"} ]
    \cup [ id : {"n/a"}, title : {"T"}, project : {"1"} ]

Snapshots ==
  [ researcher : SeqsUpTo(ResearcherRows, MaxResearchers),
    project : SeqsUpTo(ProjectRows, MaxProjects),
    publication : SeqsUpTo(PublicationRows, MaxPublications) ]

\* ---- Normalizer ----

\* Blank cells become absent fields.
DropBlank(row) == [ f \in { g \in DOMAIN row : row[g] # "" } |-> row[f] ]

\* One row: a parse failure when the identifier cell is no number, else the
\* typed record with its defaults; `row` is the row's position in the sheet.
NormalizeRow(type, row, r) ==
  IF r.id \notin Numerals
    THEN [ failure |-> TRUE, type |-> type, row |-> row ]
    ELSE
      LET kept == DropBlank(r)
          base == [ f \in (DOMAIN kept) \ {"lead", "pillar"} |-> kept[f] ]
          typed ==
            CASE type = "researcher" -> [ lead |-> r.lead # "" ]
              [] type = "project" ->
                   [ pillar |-> IF r.pillar = "" THEN Unspecified ELSE r.pillar ]
              [] OTHER -> << >>
      IN  [ failure |-> FALSE, type |-> type, row |-> row,
            fields |-> base @@ typed ]

\* A sheet, row order kept.
NormalizeSheet(type, rows) ==
  [ i \in 1 .. Len(rows) |-> NormalizeRow(type, i, rows[i]) ]

Normalizer(src) ==
  [ t \in DOMAIN src |-> NormalizeSheet(t, src[t]) ]

\* ---- Validator ----

\* The positions of the sheet's rows that were normalized.
Parsed(recs, type) == { i \in DOMAIN recs[type] : ~recs[type][i].failure }

\* The identifiers the records of a type carry.
IdsOf(recs, type) == { recs[type][i].fields.id : i \in Parsed(recs, type) }

Entity(rec) == [ type |-> rec.type, row |-> rec.row, id |-> rec.fields.id ]

RECURSIVE Collect(_, _, _)
\* The findings F(rec) of the records of a sequence, in order.
Collect(F(_), seq, i) ==
  IF i > Len(seq) THEN << >>
  ELSE (IF seq[i].failure THEN << >> ELSE F(seq[i])) \o Collect(F, seq, i + 1)

RequiredOf(type) == IF type = "researcher" THEN {"id", "name"} ELSE {"id", "title"}

RequiredFieldFindings(recs) ==
  LET F(rec) ==
        IF RequiredOf(rec.type) \subseteq DOMAIN rec.fields THEN << >>
        ELSE << [ severity |-> "error", rule |-> "required",
                  entity |-> Entity(rec),
                  missing |-> RequiredOf(rec.type) \ DOMAIN rec.fields ] >>
  IN  Collect(F, recs.researcher, 1) \o Collect(F, recs.project, 1)
        \o Collect(F, recs.publication, 1)

PillarFindings(recs) ==
  LET F(rec) ==
        IF rec.fields.pillar \in Pillars THEN << >>
        ELSE << [ severity |-> "error", rule |-> "pillar",
                  entity |-> Entity(rec), value |-> rec.fields.pillar ] >>
  IN  Collect(F, recs.project, 1)

\* The sheet a reference field points into.
ReferenceField(type) == IF type = "project" THEN "researcher" ELSE "project"

CrossReferenceFindingsDropped(recs) == << >>

CrossReferenceFindings(recs) ==
  LET F(rec) ==
        LET field == ReferenceField(rec.type)
        IN  IF field \notin DOMAIN rec.fields
               \/ rec.fields[field] \in IdsOf(recs, field)
              THEN << >>
              ELSE << [ severity |-> "error", rule |-> "reference",
                        entity |-> Entity(rec), target |-> rec.fields[field] ] >>
  IN  Collect(F, recs.project, 1) \o Collect(F, recs.publication, 1)

RECURSIVE FlaggedIds(_, _)
\* The identifiers of the researchers flagged as lead, in row order.
FlaggedIds(seq, i) ==
  IF i > Len(seq) THEN << >>
  ELSE (IF ~seq[i].failure /\ seq[i].fields.lead THEN << seq[i].fields.id >> ELSE << >>)
         \o FlaggedIds(seq, i + 1)

LeadershipFindingsPerLead(recs) ==
  LET flagged == FlaggedIds(recs.researcher, 1)
  IN  IF Len(flagged) = 1 THEN << >>
      ELSE IF flagged = << >>
        THEN << [ severity |-> "warning", rule |-> "leadership", flagged |-> << >> ] >>
        ELSE [ i \in 1 .. Len(flagged) |->
                 [ severity |-> "warning", rule |-> "leadership",
                   flagged |-> << flagged[i] >> ] ]

LeadershipFindings(recs) ==
  LET flagged == FlaggedIds(recs.researcher, 1)
  IN  IF Len(flagged) = 1 THEN << >>
      ELSE << [ severity |-> "warning", rule |-> "leadership", flagged |-> flagged ] >>

RECURSIVE DuplicatePairs(_, _, _)
\* One error for each pair of records of the sheet that share an identifier.
DuplicatePairs(seq, i, j) ==
  IF i > Len(seq) THEN << >>
  ELSE IF j > Len(seq) THEN DuplicatePairs(seq, i + 1, i + 2)
  ELSE (IF ~seq[i].failure /\ ~seq[j].failure /\ seq[i].fields.id = seq[j].fields.id
          THEN << [ severity |-> "error", rule |-> "unique",
                    entity |-> Entity(seq[i]), other |-> Entity(seq[j]) ] >>
          ELSE << >>)
         \o DuplicatePairs(seq, i, j + 1)

UniquenessFindingsAcrossTypes(recs) ==
  DuplicatePairs(recs.researcher \o recs.project \o recs.publication, 1, 2)

UniquenessFindings(recs) ==
  DuplicatePairs(recs.researcher, 1, 2) \o DuplicatePairs(recs.project, 1, 2)
    \o DuplicatePairs(recs.publication, 1, 2)

RECURSIVE ParseFailures(_, _)
ParseFailures(seq, i) ==
  IF i > Len(seq) THEN << >>
  ELSE (IF seq[i].failure
          THEN << [ severity |-> "error", rule |-> "parse",
                    entity |-> [ type |-> seq[i].type, row |-> seq[i].row ] ] >>
          ELSE << >>)
         \o ParseFailures(seq, i + 1)

ValidatorFailFast(recs) ==
  LET all == ParseFailures(recs.researcher \o recs.project \o recs.publication, 1)
               \o RequiredFieldFindings(recs)
               \o PillarFindings(recs)
               \o CrossReferenceFindings(recs)
               \o LeadershipFindings(recs)
               \o UniquenessFindings(recs)
  IN  IF all = << >> THEN << >> ELSE << Head(all) >>

\* Every rule over every record: nothing stops at the first finding.
Validator(recs) ==
  ParseFailures(recs.researcher \o recs.project \o recs.publication, 1)
    \o RequiredFieldFindings(recs)
    \o PillarFindings(recs)
    \o CrossReferenceFindings(recs)
    \o LeadershipFindings(recs)
    \o UniquenessFindings(recs)

\* ---- Page Renderer ----

RECURSIVE Rendered(_, _, _)
\* P(rec) for the normalized records of a sheet, row order kept.
Rendered(P(_), seq, i) ==
  IF i > Len(seq) THEN << >>
  ELSE (IF seq[i].failure THEN << >> ELSE << P(seq[i]) >>) \o Rendered(P, seq, i + 1)

RECURSIVE Reversed(_)
Reversed(seq) == IF seq = << >> THEN << >> ELSE Reversed(Tail(seq)) \o << Head(seq) >>

\* The numbered detail page of a record.
PagePath(rec) == [ dir |-> rec.type, id |-> rec.fields.id, row |-> rec.row ]

ListItem(rec) ==
  [ path |-> PagePath(rec), id |-> rec.fields.id ]
    @@ (IF rec.type = "project" THEN [ pillar |-> rec.fields.pillar ] ELSE << >>)

ListPageReversed(recs, type) == Reversed(Rendered(ListItem, recs[type], 1))

\* The list page of an entity type: one item per record, in row order.
ListPage(recs, type) == Rendered(ListItem, recs[type], 1)

\* The elements the researcher detail template renders.
ResearcherDetailElements == {"title", "subtitle", "body", "image-or-placeholder"}

DetailPage(rec) ==
  [ path |-> PagePath(rec),
    elements |-> IF rec.type = "researcher" THEN ResearcherDetailElements
                 ELSE {"title", "subtitle", "body", "image-or-placeholder",
                       "related-links"} ]

DetailPages(recs, type) == Rendered(DetailPage, recs[type], 1)

\* The elements of the homepage's "Division Leadership" section.
LeadershipElements == {"heading", "paragraph", "linkedin-link"}

\* The leadership block, bound to the first record flagged as division lead.
LeadershipBlock(recs) ==
  LET leads == { i \in Parsed(recs, "researcher") : recs.researcher[i].fields.lead }
  IN  IF leads = {} THEN << >>
      ELSE LET first == CHOOSE i \in leads : \A j \in leads : i <= j
           IN  << [ lead |-> PagePath(recs.researcher[first]),
                    elements |-> LeadershipElements ] >>

HomePage(recs) ==
  [ featured |-> [ t \in DOMAIN recs |->
                     SubSeq(ListPage(recs, t), 1,
                            IF Len(ListPage(recs, t)) < FeaturedCount
                              THEN Len(ListPage(recs, t)) ELSE FeaturedCount) ],
    leadership |-> LeadershipBlock(recs) ]

JsonRecord(rec) == [ path |-> PagePath(rec), type |-> rec.type ] @@ rec.fields

\* The JSON index of an entity type, mirroring its list page.
JsonIndex(recs, type) == Rendered(JsonRecord, recs[type], 1)

\* The files of one run; the findings list is copied alongside the site.
PageRenderer(recs, fnds) ==
  [ home |-> HomePage(recs),
    lists |-> [ t \in DOMAIN recs |-> ListPage(recs, t) ],
    details |-> [ t \in DOMAIN recs |-> DetailPages(recs, t) ],
    json |-> [ t \in DOMAIN recs |-> JsonIndex(recs, t) ],
    findings |-> fnds ]

\* ---- the build command ----

NoRecords == [ researcher |-> << >>, project |-> << >>, publication |-> << >> ]
NoOutput == [ written |-> FALSE ]

Normalize ==
  /\ stage = "read"
  /\ records' = Normalizer(sheets)
  /\ stage' = "normalized"
  /\ UNCHANGED <<sheets, findings, output, previous>>

Validate ==
  /\ stage = "normalized"
  /\ findings' = Validator(records)
  /\ stage' = "validated"
  /\ UNCHANGED <<sheets, records, output, previous>>

Render ==
  /\ stage = "validated"
  /\ output' = PageRenderer(records, findings)
  /\ stage' = "rendered"
  /\ UNCHANGED <<sheets, records, findings, previous>>

\* The build command is run again on the unchanged snapshot.
Rebuild ==
  /\ stage = "rendered"
  /\ Len(previous) + 1 < MaxRuns
  /\ previous' = Append(previous, output)
  /\ records' = NoRecords
  /\ findings' = << >>
  /\ output' = NoOutput
  /\ stage' = "read"
  /\ UNCHANGED sheets

InitBuild ==
  /\ sheets \in Snapshots
  /\ records = NoRecords
  /\ findings = << >>
  /\ output = NoOutput
  /\ previous = << >>
  /\ stage = "read"

\* The variables of this part while no build is followed.
NoBuild ==
  /\ sheets = NoRecords
  /\ records = NoRecords
  /\ findings = << >>
  /\ output = NoOutput
  /\ previous = << >>
  /\ stage = "rendered"


----------------------------------------------------------------------------
\* Cards: card-interactions.js makes every card clickable, the click pulse
\* script (part_000) adds a ripple to whatever is clicked.

CardIds == 1 .. MaxCards

\* A card's markup: data-href, href of the first a[href] inside, href of an
\* anchor wrapped around it; NoItem where there is none.
CardLinks ==
  [ dataHref : {NoItem, "/data"}, innerHref : {NoItem, "/inner"},
    wrapHref : {NoItem, "/wrap"} ]

\* findCardLink(card)
FindCardLink(links) ==
  IF links.dataHref # NoItem THEN links.dataHref
  ELSE IF links.innerHref # NoItem THEN links.innerHref
  ELSE IF links.wrapHref # NoItem THEN links.wrapHref
  ELSE NoItem

\* What a click can hit: the card's own surface, an anchor inside it, a button
\* inside it.
ClickTargets(links) ==
  {"surface", "button"} \cup (IF links.innerHref # NoItem THEN {"a"} ELSE {})

\* handleClick(): target.tagName === 'A' || 'BUTTON' || target.closest('a') ||
\* target.closest('button'); closest() also finds an anchor around the card.
IsNativeTarget(links, target) ==
  target \in {"a", "button"} \/ links.wrapHref # NoItem

HandleClickAnyTarget(links, target) ==
  LET href == FindCardLink(links)
  IN  IF href = NoItem
        THEN [ prevented |-> FALSE, ripple |-> FALSE, navigate |-> NoItem ]
        ELSE [ prevented |-> TRUE, ripple |-> TRUE, navigate |-> href ]

\* handleClick(e): whether it calls preventDefault and createRipple, and the
\* href it schedules the navigation to.
HandleClick(links, target) ==
  IF IsNativeTarget(links, target)
    THEN [ prevented |-> FALSE, ripple |-> FALSE, navigate |-> NoItem ]
    ELSE LET href == FindCardLink(links)
         IN  IF href = NoItem
               THEN [ prevented |-> FALSE, ripple |-> FALSE, navigate |-> NoItem ]
               ELSE [ prevented |-> TRUE, ripple |-> TRUE, navigate |-> href ]

\* element.addEventListener('click', fn): a listener already registered is
\* not registered again.
AddEventListener(listeners, fn) ==
  IF \E i \in DOMAIN listeners : listeners[i] = fn THEN listeners
  ELSE Append(listeners, fn)

\* How many of the element's click listeners are fn.
ListenerCount(el, fn) == Cardinality({ i \in DOMAIN el.listeners : el.listeners[i] = fn })

InitCardUnguarded(el) ==
  [ el EXCEPT !.cardInteractive = TRUE, !.inits = @ + 1,
              !.listeners = AddEventListener(@, "handleClick") ]

\* initCard(card); inits counts the times its body ran.
InitCard(el) ==
  IF el.cardInteractive THEN el
  ELSE [ el EXCEPT !.cardInteractive = TRUE, !.inits = @ + 1,
                   !.listeners = AddEventListener(@, "handleClick") ]

\* initAllCards()
InitAllCards(els) ==
  [ c \in DOMAIN els |-> IF els[c].present THEN InitCard(els[c]) ELSE els[c] ]

\* The callback of bindRippleEvents' forEach; binds counts the times it bound.
BindRipple(el) ==
  IF el.rippleBound THEN el
  ELSE [ el EXCEPT !.rippleBound = TRUE, !.binds = @ + 1,
                   !.listeners = AddEventListener(@, "createRipple") ]

\* bindRippleEvents()
BindRippleEvents(els) ==
  [ c \in DOMAIN els |-> IF els[c].present THEN BindRipple(els[c]) ELSE els[c] ]

\* The two scripts' MutationObserver callbacks after nodes were added under
\* document.body: the click pulse one re-binds at once, the cards' one
\* schedules initAllCards.
ObserversRebind(els) == IF pulseOn /\ hasObserver THEN BindRippleEvents(els) ELSE els

ObserversSchedule(timers, now) ==
  IF hasObserver
    THEN timers \cup { [ kind |-> "initAllCards", due |-> now + InitDelay ] }
    ELSE timers

FreshCard(present) ==
  [ present |-> present, cardInteractive |-> FALSE, rippleBound |-> FALSE,
    inits |-> 0, binds |-> 0, listeners |-> << >> ]

ClickGaps == {0, 100, 250}

\* A click on something in a card, `gap` ms after the latest event: the
\* card's click listeners run in the order they were registered.
CardClick ==
  /\ cardLocation = NoItem
  /\ cardClicks < MaxCardClicks
  /\ \E c \in CardIds, target \in ClickTargets(cardLinks), gap \in ClickGaps :
       LET now == cardClock + gap
           n == cardClicks + 1
           el == cardEls[c]
           handled == HandleClick(cardLinks, target)
           cards == IF handled.ripple THEN ListenerCount(el, "handleClick") ELSE 0
           pulse == ListenerCount(el, "createRipple")
           added ==
             { [ script |-> "card", card |-> c, click |-> n, copy |-> k ] : k \in 1 .. cards }
               \cup { [ script |-> "pulse", card |-> c, click |-> n, copy |-> k ] :
                        k \in 1 .. pulse }
           removals ==
             { [ kind |-> "removeRipple", ripple |-> r,
                 due |-> now + (IF r.script = "card" THEN RippleDuration
                                ELSE PulseDuration) ] : r \in added }
           navigations ==
             { [ kind |-> "navigate", href |-> handled.navigate, click |-> n, copy |-> k,
                 due |-> now + NavigationDelay ] : k \in 1 .. cards }
       IN  /\ el.present
           /\ \A t \in cardTimers : t.due >= now
           /\ cardClock' = now
           /\ cardClicks' = n
           /\ lastCardClick' =
                [ card |-> c, target |-> target, click |-> n,
                  prevented |-> handled.prevented
                                  /\ ListenerCount(el, "handleClick") > 0 ]
           /\ cardRipples' = cardRipples \cup added
           /\ cardEls' = IF added # {} THEN ObserversRebind(cardEls) ELSE cardEls
           /\ cardTimers' =
                IF added # {}
                  THEN ObserversSchedule(cardTimers \cup removals \cup navigations, now)
                  ELSE cardTimers
  /\ UNCHANGED <<cardLinks, pulseOn, hasObserver, cardLocation>>

\* The earliest pending timer fires.
CardTimer ==
  /\ \E t \in cardTimers :
       /\ \A u \in cardTimers : t.due <= u.due
       /\ cardClock' = (IF t.due > cardClock THEN t.due ELSE cardClock)
       /\ cardTimers' = cardTimers \ {t}
       /\ cardRipples' =
            (IF t.kind = "removeRipple" THEN cardRipples \ {t.ripple} ELSE cardRipples)
       /\ cardLocation' = (IF t.kind = "navigate" THEN t.href ELSE cardLocation)
       /\ cardEls' = (IF t.kind = "initAllCards" THEN InitAllCards(cardEls) ELSE cardEls)
  /\ UNCHANGED <<cardLinks, pulseOn, hasObserver, cardClicks, lastCardClick>>

\* Content loaded later puts one more card into the document.
CardAdded ==
  /\ cardLocation = NoItem
  /\ \E c \in CardIds :
       /\ ~cardEls[c].present
       /\ cardEls' = ObserversRebind([cardEls EXCEPT ![c] = FreshCard(TRUE)])
  /\ cardTimers' = ObserversSchedule(cardTimers, cardClock)
  /\ UNCHANGED <<cardLinks, pulseOn, hasObserver, cardRipples, cardClock,
                 cardLocation, cardClicks, lastCardClick>>

\* Both scripts' init() has run on a document that holds the first card.
InitCards ==
  /\ cardLinks \in CardLinks
  /\ pulseOn \in BOOLEAN
  /\ hasObserver \in BOOLEAN
  /\ cardEls = LET loaded == InitAllCards([ c \in CardIds |-> FreshCard(c = 1) ])
               IN  IF pulseOn THEN BindRippleEvents(loaded) ELSE loaded
  /\ cardTimers = {}
  /\ cardRipples = {}
  /\ cardClock = 0
  /\ cardLocation = NoItem
  /\ cardClicks = 0
  /\ lastCardClick = [ card |-> 1, target |-> "surface", click |-> 0, prevented |-> FALSE ]

\* The variables of this part on a page without cards.
NoCards ==
  /\ cardLinks = [ dataHref |-> NoItem, innerHref |-> NoItem, wrapHref |-> NoItem ]
  /\ pulseOn = FALSE
  /\ hasObserver = FALSE
  /\ cardEls = [ c \in CardIds |-> FreshCard(FALSE) ]
  /\ cardTimers = {}
  /\ cardRipples = {}
  /\ cardClock = 0
  /\ cardLocation = NoItem
  /\ cardClicks = 0
  /\ lastCardClick = [ card |-> 1, target |-> "surface", click |-> 0, prevented |-> FALSE ]

----------------------------------------------------------------------------
\* Project page header animation: falling blocks (src/unnamed/part_002).
\* Lengths are counted in fall steps (one unit is config.fallSpeed pixels, so
\* a frame moves a falling block by one unit) and x is taken relative to
\* dimensions.width * 0.7.  The float offset only shifts where a block is
\* drawn (drawBlock); it never writes block.y and is left out.

SHAPES ==
  << { <<0, 0>>, <<1, 0>>, <<0, 1>>, <<1, 1>> },     \* Square
     { <<0, 0>>, <<0, 1>>, <<0, 2>>, <<1, 2>> },     \* L-shape
     { <<1, 0>>, <<1, 1>>, <<1, 2>>, <<0, 2>> },     \* J-shape
     { <<0, 0>>, <<1, 0>>, <<2, 0>>, <<1, 1>> },     \* T-shape
     { <<1, 0>>, <<2, 0>>, <<0, 1>>, <<1, 1>> },     \* S-shape
     { <<0, 0>>, <<1, 0>>, <<1, 1>>, <<2, 1>> },     \* Z-shape
     { <<0, 0>>, <<0, 1>>, <<0, 2>>, <<0, 3>> } >>   \* I-shape

\* The shapes Math.random() picks in the model: the square and the I-shape.
ShapeChoices == { 1, Len(SHAPES) }

MaxOf(S) == CHOOSE m \in S : \A n \in S : n <= m

MinOf(S) == CHOOSE m \in S : \A n \in S : m <= n

AbsDiff(a, b) == IF a < b THEN b - a ELSE a - b

FloorLine == CanvasHeight - BlockSize * 2

\* Blocks are created at y = -blockSize * 4; a frame that would take a block
\* above that line is not explored.
SpawnLine == -(BlockSize * 4)

\* createBlock: startCol = floor(random * (columns - maxX - 1)).
StartCols(shape) ==
  0 .. (Columns - MaxOf({ c[1] : c \in SHAPES[shape] }) - 2)

CreateBlock(shape, col) ==
  [ shape |-> shape,
    x |-> col * BlockSize,
    y |-> SpawnLine,
    targetY |-> << >>,
    settled |-> FALSE,
    settleTime |-> 0 ]

\* initBlocks: y = random * height * 0.5 - height * 0.3.
InitialYs == -((3 * CanvasHeight) \div 10) .. ((2 * CanvasHeight) \div 10)

FreshBlocks ==
  { CreateBlock(shape, col) : <<shape, col>> \in
      { sc \in ShapeChoices \X (0 .. Columns) : sc[2] \in StartCols(sc[1]) } }

InitialBlocks ==
  { [ blk EXCEPT !.y = y ] : <<blk, y>> \in FreshBlocks \X InitialYs }

TetrisState ==
  [ objs |-> blockObjs, blocks |-> blocks, settled |-> settledBlocks,
    timers |-> settleTimers, next |-> nextBlock ]

\* findSettleY: the lowest y the block can settle to, against settledBlocks.
FindSettleY(objs, settled, b) ==
  LET blk == objs[b]
      Potentials(other) ==
        UNION { { other.y + sOffset[2] * BlockSize - BlockSize * (offset[2] + 1) :
                    sOffset \in { so \in SHAPES[other.shape] :
                      AbsDiff(blk.x + offset[1] * BlockSize,
                              other.x + so[1] * BlockSize) < BlockSize } } :
                offset \in SHAPES[blk.shape] }
  IN  MinOf({ FloorLine }
              \cup UNION { Potentials(objs[settled[k]]) : k \in 1 .. Len(settled) })

AddTimer(timers, b) ==
  IF b \in DOMAIN timers THEN [ timers EXCEPT ![b] = @ + 1 ] ELSE timers @@ (b :> 1)

RemoveTimer(timers, b) ==
  IF timers[b] > 1 THEN [ timers EXCEPT ![b] = @ - 1 ]
  ELSE [ t \in DOMAIN timers \ { b } |-> timers[t] ]

\* The body of updateBlocks' forEach for blocks[i].  unsettle: the settled
\* blocks whose Math.random() < 0.002 test passes this frame; fresh: the block
\* createBlock() returns.  settleTime is only compared with the threshold and
\* stops counting one above it.
UpdateBlock(s, i, unsettle, fresh) ==
  LET b == s.blocks[i]
      o == s.objs[b]
  IN  IF o.settled
        THEN LET time == IF o.settleTime > MinSettleFrames THEN o.settleTime
                         ELSE o.settleTime + 1
             IN  IF time > MinSettleFrames /\ b \in unsettle
                   THEN [ s EXCEPT !.objs[b] =
                            [ o EXCEPT !.settleTime = time, !.settled = FALSE,
                                       !.targetY = << >> ] ]
                   ELSE [ s EXCEPT !.objs[b].settleTime = time ]
        ELSE LET target == IF o.targetY = << >>
                             THEN FindSettleY(s.objs, s.settled, b)
                             ELSE o.targetY[1]
                 fallen == o.y + 1
                 reached == fallen >= target
                 y == IF reached THEN target ELSE fallen
                 moved == [ o EXCEPT !.targetY = << target >>, !.y = y,
                                     !.settled = reached,
                                     !.settleTime = IF reached THEN 0 ELSE @ ]
                 s1 == [ s EXCEPT !.objs[b] = moved,
                                  !.settled = IF reached THEN Append(@, b) ELSE @,
                                  !.timers = IF reached THEN AddTimer(@, b) ELSE @ ]
             IN  IF y > CanvasHeight + BlockSize * 4
                   THEN [ s1 EXCEPT !.blocks[i] = s1.next,
                                    !.objs = @ @@ (s1.next :> fresh),
                                    !.next = @ + 1 ]
                   ELSE s1

RECURSIVE UpdateEach(_, _, _, _)
UpdateEach(s, i, unsettle, fresh) ==
  IF i > Len(s.blocks) THEN s
  ELSE LET updated == CHOOSE t \in { UpdateBlock(s, i, unsettle, fresh) } : TRUE
       IN  UpdateEach(updated, i + 1, unsettle, fresh)

UpdateBlocks(s, unsettle, fresh) ==
  LET s1 == UpdateEach(s, 1, unsettle, fresh)
      activeCount ==
        Cardinality({ i \in 1 .. Len(s1.blocks) : ~s1.objs[s1.blocks[i]].settled })
      s2 == IF activeCount * 3 < BlockCount
              THEN [ s1 EXCEPT !.blocks = Append(@, s1.next),
                               !.objs = @ @@ (s1.next :> fresh),
                               !.next = @ + 1 ]
              ELSE s1
      n == Len(s2.blocks)
  IN  IF n > BlockCount * 2
        THEN [ s2 EXCEPT !.blocks = SubSeq(@, n - BlockCount + 1, n) ]
        ELSE s2

\* initBlocks: both arrays are replaced by blockCount new blocks.
InitBlocks(s, picks) ==
  [ s EXCEPT !.blocks = [ i \in 1 .. BlockCount |-> s.next + i - 1 ],
             !.settled = << >>,
             !.objs = [ b \in DOMAIN @ \cup (s.next .. s.next + BlockCount - 1) |->
                          IF b \in DOMAIN @ THEN @[b] ELSE picks[b - s.next + 1] ],
             !.next = @ + BlockCount ]

\* The callback of the timeout set when a block settles.
SettleTimeoutFn(s, b) ==
  LET found == { k \in 1 .. Len(s.settled) : s.settled[k] = b }
  IN  IF found # {} /\ Len(s.settled) * 2 > BlockCount
        THEN LET idx == MinOf(found)
             IN  [ s EXCEPT !.settled = SubSeq(@, 1, idx - 1)
                                          \o SubSeq(@, idx + 1, Len(@)) ]
        ELSE s

SeqRange(seq) == { seq[k] : k \in 1 .. Len(seq) }

\* Objects neither array refers to are dropped from the state: a timeout
\* that still holds one only looks for it in settledBlocks, by identity.
ApplyTetris(s) ==
  LET live == SeqRange(s.blocks) \cup SeqRange(s.settled)
  IN  /\ blockObjs' = [ b \in live |-> s.objs[b] ]
      /\ blocks' = s.blocks
      /\ settledBlocks' = s.settled
      /\ settleTimers' = s.timers
      /\ nextBlock' = s.next

\* animate: one frame.
TetrisAnimate ==
  /\ IF isVisible
       THEN \E unsettle \in SUBSET { b \in SeqRange(blocks) : blockObjs[b].settled },
               fresh \in FreshBlocks :
              \E s \in { UpdateBlocks(TetrisState, unsettle, fresh) } :
                /\ s.next <= MaxBlockIds + 1
                /\ \A b \in DOMAIN s.objs : s.objs[b].y >= SpawnLine
                /\ ApplyTetris(s)
       ELSE UNCHANGED <<blockObjs, blocks, settledBlocks, settleTimers, nextBlock>>
  /\ UNCHANGED <<isVisible, resizes>>

\* handleResize: resize() ends in initBlocks().
TetrisResize ==
  /\ resizes < MaxResizes
  /\ nextBlock + BlockCount <= MaxBlockIds + 1
  /\ \E picks \in [ 1 .. BlockCount -> InitialBlocks ] :
       ApplyTetris(InitBlocks(TetrisState, picks))
  /\ resizes' = resizes + 1
  /\ UNCHANGED isVisible

SettleTimeout ==
  \E b \in DOMAIN settleTimers :
    /\ ApplyTetris([ SettleTimeoutFn(TetrisState, b) EXCEPT
                       !.timers = RemoveTimer(@, b) ])
    /\ UNCHANGED <<isVisible, resizes>>

\* The IntersectionObserver callback.
TetrisVisibility ==
  /\ isVisible' = ~isVisible
  /\ UNCHANGED <<blockObjs, blocks, settledBlocks, settleTimers, nextBlock, resizes>>

\* init(): createCanvas, resize (which fills the arrays), listeners, animate.
InitTetris ==
  /\ \E picks \in [ 1 .. BlockCount -> InitialBlocks ] :
       /\ blockObjs = [ b \in 1 .. BlockCount |-> picks[b] ]
       /\ blocks = [ i \in 1 .. BlockCount |-> i ]
  /\ settledBlocks = << >>
  /\ settleTimers = << >>
  /\ isVisible = TRUE
  /\ nextBlock = BlockCount + 1
  /\ resizes = 0

NoTetris ==
  /\ blockObjs = << >>
  /\ blocks = << >>
  /\ settledBlocks = << >>
  /\ settleTimers = << >>
  /\ isVisible = TRUE
  /\ nextBlock = 1
  /\ resizes = 0

----------------------------------------------------------------------------
\* AnimationCore.createAnimationLoop (theme-toggle.js lines 737-778): one loop
\* object, its closure variables, and the requestAnimationFrame callbacks the
\* browser holds for it.  updateFn and drawFn are the caller's: each may call
\* the loop's own start() and stop() while it runs.

LoopState ==
  [ running |-> isRunning, id |-> animationId, pending |-> rafCallbacks,
    next |-> nextRafId, reduced |-> prefersReducedMotion, last |-> lastCall,
    peak |-> peakPending, late |-> lateCalls, updateFn |-> updateFn,
    drawFn |-> drawFn ]

\* requestAnimationFrame(loop): a new callback with a new, non-zero id.
RequestFrame(st) ==
  LET pending == st.pending \cup { st.next }
  IN  [ st EXCEPT !.id = st.next, !.pending = pending, !.next = @ + 1,
                  !.peak = IF Cardinality(pending) > @ THEN Cardinality(pending)
                           ELSE @ ]

\* start()
LoopStart(st) ==
  LET called == [ st EXCEPT !.last = "start" ]
  IN  IF st.reduced THEN called
      ELSE IF st.running THEN called
      ELSE RequestFrame([ called EXCEPT !.running = TRUE ])

\* stop(); animationId null is 0
LoopStop(st) ==
  LET called == [ st EXCEPT !.last = "stop", !.running = FALSE ]
  IN  IF st.id # 0
        THEN [ called EXCEPT !.pending = @ \ { st.id }, !.id = 0 ]
        ELSE called

\* The calls a caller's updateFn or drawFn makes on the loop while it runs.
CallSeqs == UNION { [ 1 .. n -> { "start", "stop" } ] : n \in 0 .. MaxCalls }

RECURSIVE RunCalls(_, _)
RunCalls(st, calls) ==
  IF calls = << >> THEN st
  ELSE RunCalls(IF Head(calls) = "start" THEN LoopStart(st) ELSE LoopStop(st),
                Tail(calls))

\* updateFn(...) or drawFn() is invoked; late records an invocation made
\* when the latest call on the loop was stop().
InvokeFn(st, fn, calls) ==
  RunCalls([ st EXCEPT !.late = IF st.last = "stop" THEN @ \cup { fn } ELSE @ ],
           calls)

\* loop(currentTime); due: deltaTime >= frameInterval
Loop(st, due, updateCalls, drawCalls) ==
  IF ~st.running THEN st
  ELSE LET requested == RequestFrame(st)
       IN  IF due
             THEN LET updated == IF st.updateFn
                                   THEN InvokeFn(requested, "updateFn", updateCalls)
                                   ELSE requested
                  IN  IF st.drawFn THEN InvokeFn(updated, "drawFn", drawCalls)
                      ELSE updated
             ELSE requested

ApplyLoopState(st) ==
  /\ isRunning' = st.running
  /\ animationId' = st.id
  /\ rafCallbacks' = st.pending
  /\ nextRafId' = st.next
  /\ lastCall' = st.last
  /\ peakPending' = st.peak
  /\ lateCalls' = st.late
  /\ UNCHANGED <<prefersReducedMotion, updateFn, drawFn>>

\* start() called by the page, between frames.
LoopStartCall ==
  \E st \in { LoopStart(LoopState) } :
    /\ st.next <= MaxRafIds + 1
    /\ ApplyLoopState(st)
    /\ loopOp' = "start"

\* stop() called by the page, between frames.
LoopStopCall ==
  /\ ApplyLoopState(LoopStop(LoopState))
  /\ loopOp' = "stop"

\* The browser runs one pending callback.
LoopFrame ==
  \E id \in rafCallbacks, due \in BOOLEAN, updateCalls \in CallSeqs,
     drawCalls \in CallSeqs :
    \E st \in { Loop([ LoopState EXCEPT !.pending = @ \ { id } ], due,
                     updateCalls, drawCalls) } :
      /\ st.next <= MaxRafIds + 1
      /\ ApplyLoopState(st)
      /\ loopOp' = "frame"

InitLoop ==
  /\ isRunning = FALSE
  /\ animationId = 0
  /\ rafCallbacks = {}
  /\ nextRafId = 1
  /\ prefersReducedMotion \in BOOLEAN
  /\ lastCall = "none"
  /\ peakPending = 0
  /\ lateCalls = {}
  /\ loopOp = "none"
  /\ updateFn \in BOOLEAN
  /\ drawFn \in BOOLEAN

NoLoop ==
  /\ isRunning = FALSE
  /\ animationId = 0
  /\ rafCallbacks = {}
  /\ nextRafId = 1
  /\ prefersReducedMotion = FALSE
  /\ lastCall = "none"
  /\ peakPending = 0
  /\ lateCalls = {}
  /\ loopOp = "none"
  /\ updateFn = FALSE
  /\ drawFn = FALSE

----------------------------------------------------------------------------
\* Search overlay, the event side (part_003 lines 122-177): the input
\* listener with its 300 ms debounce, the loads in flight, open and close.
\* The overlay's allData and results pane are the variables of the search
\* section above.

LoadingPane == [kind |-> "search-loading", items |-> <<>>]

\* The values the input event handler reads (this.value.trim()).
InputValues == { <<"a","b">>, <<"p","r">>, <<"a">>, <<>> }

\* What the three data files hold, as loadData() stores it.
ServedData ==
  LoadedData(<<[name |-> <<"A","b">>, title |-> <<"M","D">>, path |-> <<"r","1">>]>>,
             <<[title |-> <<"a","b">>, abstract |-> <<"B","a">>,
                pillar |-> <<"P","R","E","D","I","C","T">>, path |-> <<"p","1">>]>>,
             <<>>)

\* A call of loadData() awaiting its fetches; waiter holds the query of the
\* debounce callback suspended on it, if it was called from one.
LoadFor(waiter) == [waiter |-> waiter]

\* The input listener: clearTimeout, then the hint or a new 300 ms timer.
OverlayInput ==
  \E value \in InputValues :
    /\ inputValue' = value
    /\ closedSince' = FALSE
    /\ IF Len(value) < MinQueryLength
         THEN pane' = HintPane /\ searchTimeout' = <<>>
         ELSE pane' = pane /\ searchTimeout' = <<value>>
    /\ UNCHANGED <<inSubdir, allData, query, searched, results, loadsInFlight,
                   overlayActive>>

\* The debounce callback, up to its await (or to its end, on loaded data).
DebounceFire ==
  /\ searchTimeout # <<>>
  /\ searchTimeout' = <<>>
  /\ IF allData = None
       THEN /\ Len(loadsInFlight) < MaxLoads
            /\ pane' = LoadingPane
            /\ loadsInFlight' = Append(loadsInFlight, LoadFor(searchTimeout))
       ELSE /\ pane' = DisplayResults(Search(searchTimeout[1], allData))
            /\ loadsInFlight' = loadsInFlight
  /\ UNCHANGED <<inSubdir, allData, query, searched, results, inputValue,
                 overlayActive, closedSince>>

\* A loadData() call completes: allData is stored, and the debounce callback
\* waiting on it goes on to search(query) and displayResults(results).
LoadResolved ==
  \E k \in 1 .. Len(loadsInFlight) :
    /\ allData' = ServedData
    /\ loadsInFlight' = RemoveAt(loadsInFlight, k)
    /\ pane' = IF loadsInFlight[k].waiter = <<>> THEN pane
               ELSE DisplayResults(Search(loadsInFlight[k].waiter[1], allData'))
    /\ UNCHANGED <<inSubdir, query, searched, results, inputValue, searchTimeout,
                   overlayActive, closedSince>>

\* openSearch()
OpenSearch ==
  /\ overlayActive' = TRUE
  /\ IF allData = None
       THEN /\ Len(loadsInFlight) < MaxLoads
            /\ loadsInFlight' = Append(loadsInFlight, LoadFor(<<>>))
       ELSE loadsInFlight' = loadsInFlight
  /\ UNCHANGED <<inSubdir, allData, query, searched, results, pane, inputValue,
                 searchTimeout, closedSince>>

\* closeSearch()
CloseSearch ==
  /\ overlayActive' = FALSE
  /\ inputValue' = <<>>
  /\ pane' = HintPane
  /\ closedSince' = TRUE
  /\ UNCHANGED <<inSubdir, allData, query, searched, results, searchTimeout,
                 loadsInFlight>>

InitOverlay ==
  /\ inputValue = <<>>
  /\ searchTimeout = <<>>
  /\ loadsInFlight = <<>>
  /\ overlayActive = FALSE
  /\ closedSince = FALSE

NoOverlay ==
  /\ inputValue = <<>>
  /\ searchTimeout = <<>>
  /\ loadsInFlight = <<>>
  /\ overlayActive = FALSE
  /\ closedSince = FALSE

NoLate == NoTetris /\ NoLoop /\ NoOverlay

NoRest == NoFit /\ NoBuild /\ NoCards /\ NoLate

----------------------------------------------------------------------------
\* Specifications: one per script, the other scripts' variables held fixed.

InitCanvasPage == InitCanvas /\ NoSearch /\ NoFilter /\ NoMotion /\ NoRest

NextCanvas ==
  \/ ThemeClick /\ UNCHANGED <<canvasVars, searchVars, filterVars, motionVars, restVars>>
  \/ CircuitAnimate /\ UNCHANGED <<themeVars, searchVars, filterVars, motionVars, restVars>>
  \/ CircuitResize /\ UNCHANGED <<themeVars, searchVars, filterVars, motionVars, restVars>>
  \/ CircuitVisibility /\ UNCHANGED <<themeVars, searchVars, filterVars, motionVars, restVars>>
  \/ TickerAnimate /\ UNCHANGED <<themeVars, searchVars, filterVars, motionVars, restVars>>
  \/ TickerResize /\ UNCHANGED <<themeVars, searchVars, filterVars, motionVars, restVars>>
  \/ TickerVisibility /\ UNCHANGED <<themeVars, searchVars, filterVars, motionVars, restVars>>
  \/ NeuralAnimate /\ UNCHANGED <<themeVars, searchVars, filterVars, motionVars, restVars>>

SpecCanvas == InitCanvasPage /\ [][NextCanvas]_vars

InitThemePage == InitTheme /\ NoCanvas /\ NoSearch /\ NoFilter /\ NoMotion /\ NoRest

NextTheme ==
  \/ ThemeClick /\ UNCHANGED <<canvasVars, searchVars, filterVars, motionVars, restVars>>
  \/ PrefersDarkChange /\ UNCHANGED <<canvasVars, searchVars, filterVars, motionVars, restVars>>
  \/ ThemeReload /\ UNCHANGED <<canvasVars, searchVars, filterVars, motionVars, restVars>>

SpecTheme == InitThemePage /\ [][NextTheme]_vars

InitSearchPage == InitSearch /\ NoTheme /\ NoCanvas /\ NoFilter /\ NoMotion /\ NoRest

NextSearch ==
  \/ SearchLoadData /\ UNCHANGED <<themeVars, canvasVars, filterVars, motionVars, restVars>>
  \/ SearchRun /\ UNCHANGED <<themeVars, canvasVars, filterVars, motionVars, restVars>>

SpecSearch == InitSearchPage /\ [][NextSearch]_vars

InitFilterPage == InitFilter /\ NoTheme /\ NoCanvas /\ NoSearch /\ NoMotion /\ NoRest

NextFilter ==
  \/ FilterClick /\ UNCHANGED <<themeVars, canvasVars, searchVars, motionVars, restVars>>
  \/ FilterReload /\ UNCHANGED <<themeVars, canvasVars, searchVars, motionVars, restVars>>

SpecFilter == InitFilterPage /\ [][NextFilter]_vars

otherVars == <<themeVars, canvasVars, searchVars, filterVars, restVars>>

InitMotionPage == InitMotion /\ NoTheme /\ NoCanvas /\ NoSearch /\ NoFilter /\ NoRest

NextMotion ==
  \/ LoadCircuit /\ UNCHANGED otherVars
  \/ LoadAnimationCore /\ UNCHANGED otherVars
  \/ LoadTicker /\ UNCHANGED otherVars
  \/ LoadClickPulse /\ UNCHANGED otherVars
  \/ LoadTetris /\ UNCHANGED otherVars
  \/ LoadNeural /\ UNCHANGED otherVars
  \/ LoadNeuralEnhanced /\ UNCHANGED otherVars
  \/ LoadNeuralLegacy /\ UNCHANGED otherVars
  \/ LoadHelix /\ UNCHANGED otherVars
  \/ LoadSectionDividers /\ UNCHANGED otherVars
  \/ LoadBlobDividers /\ UNCHANGED otherVars
  \/ LoadAnimations /\ UNCHANGED otherVars
  \/ LoadScene /\ UNCHANGED otherVars
  \/ ImpactIntersect /\ UNCHANGED otherVars
  \/ CountUpFrame /\ UNCHANGED otherVars
  \/ TypedTextTick /\ UNCHANGED otherVars
  \/ SceneFrame /\ UNCHANGED otherVars
  \/ CoreStart /\ UNCHANGED otherVars
  \/ CoreStop /\ UNCHANGED otherVars

SpecMotion == InitMotionPage /\ [][NextMotion]_vars

NextScene ==
  \/ SceneLoad /\ UNCHANGED otherVars
  \/ SceneFrame /\ UNCHANGED otherVars
  \/ SceneEvent /\ UNCHANGED otherVars

SpecScene == InitMotionPage /\ [][NextScene]_vars

InitFitPage ==
  InitFit /\ NoTheme /\ NoCanvas /\ NoSearch /\ NoFilter /\ NoMotion /\ NoBuild
    /\ NoCards /\ NoLate

fitFrame ==
  <<themeVars, canvasVars, searchVars, filterVars, motionVars, buildVars, cardVars,
    lateVars>>

NextFit ==
  \/ FitAllElements /\ UNCHANGED fitFrame
  \/ HandleResize /\ UNCHANGED fitFrame
  \/ ResizeTimeout /\ UNCHANGED fitFrame
  \/ FitMutation /\ UNCHANGED fitFrame

SpecFit == InitFitPage /\ [][NextFit]_vars

InitBuildPage ==
  InitBuild /\ NoTheme /\ NoCanvas /\ NoSearch /\ NoFilter /\ NoMotion /\ NoFit
    /\ NoCards /\ NoLate

buildFrame ==
  <<themeVars, canvasVars, searchVars, filterVars, motionVars, fitVars, cardVars,
    lateVars>>

NextBuild ==
  \/ Normalize /\ UNCHANGED buildFrame
  \/ Validate /\ UNCHANGED buildFrame
  \/ Render /\ UNCHANGED buildFrame
  \/ Rebuild /\ UNCHANGED buildFrame

SpecBuild == InitBuildPage /\ [][NextBuild]_vars

InitCardsPage ==
  InitCards /\ NoTheme /\ NoCanvas /\ NoSearch /\ NoFilter /\ NoMotion /\ NoFit
    /\ NoBuild /\ NoLate

cardFrame ==
  <<themeVars, canvasVars, searchVars, filterVars, motionVars, fitVars, buildVars,
    lateVars>>

NextCards ==
  \/ CardClick /\ UNCHANGED cardFrame
  \/ CardTimer /\ UNCHANGED cardFrame
  \/ CardAdded /\ UNCHANGED cardFrame

SpecCards == InitCardsPage /\ [][NextCards]_vars

InitTetrisPage ==
  InitTetris /\ NoTheme /\ NoCanvas /\ NoSearch /\ NoFilter /\ NoMotion /\ NoFit
    /\ NoBuild /\ NoCards /\ NoLoop /\ NoOverlay

tetrisFrame ==
  <<themeVars, canvasVars, searchVars, filterVars, motionVars, fitVars, buildVars,
    cardVars, loopVars, overlayVars>>

NextTetris ==
  \/ TetrisAnimate /\ UNCHANGED tetrisFrame
  \/ TetrisResize /\ UNCHANGED tetrisFrame
  \/ SettleTimeout /\ UNCHANGED tetrisFrame
  \/ TetrisVisibility /\ UNCHANGED tetrisFrame

SpecTetris == InitTetrisPage /\ [][NextTetris]_vars

InitLoopPage ==
  InitLoop /\ NoTheme /\ NoCanvas /\ NoSearch /\ NoFilter /\ NoMotion /\ NoFit
    /\ NoBuild /\ NoCards /\ NoTetris /\ NoOverlay

loopFrame ==
  <<themeVars, canvasVars, searchVars, filterVars, motionVars, fitVars, buildVars,
    cardVars, tetrisVars, overlayVars>>

NextLoop ==
  \/ LoopStartCall /\ UNCHANGED loopFrame
  \/ LoopStopCall /\ UNCHANGED loopFrame
  \/ LoopFrame /\ UNCHANGED loopFrame

SpecLoop == InitLoopPage /\ [][NextLoop]_vars

InitOverlayPage ==
  InitSearch /\ InitOverlay /\ NoTheme /\ NoCanvas /\ NoFilter /\ NoMotion /\ NoFit
    /\ NoBuild /\ NoCards /\ NoTetris /\ NoLoop

overlayFrame ==
  <<themeVars, canvasVars, filterVars, motionVars, fitVars, buildVars, cardVars,
    tetrisVars, loopVars>>

NextOverlay ==
  \/ OverlayInput /\ UNCHANGED overlayFrame
  \/ DebounceFire /\ UNCHANGED overlayFrame
  \/ LoadResolved /\ UNCHANGED overlayFrame
  \/ OpenSearch /\ UNCHANGED overlayFrame
  \/ CloseSearch /\ UNCHANGED overlayFrame

SpecOverlay == InitOverlayPage /\ [][NextOverlay]_vars

----------------------------------------------------------------------------
\* Claims about the theme toggle.

PressedFor(theme) == IF theme = "theo" THEN "true" ELSE "false"
LabelFor(theme) ==
  IF theme = "theo" THEN "Switch to Light Mode" ELSE "Switch to Theo Mode"

\* C4: once the toggle has been clicked, data-theme equals the value stored
\* in localStorage under 'theme', that value is 'light' or 'theo', and the
\* latest click moved data-theme from one of the two to the other.
C4_ThemeEqualsStorageAfterClicks ==
  clicks > 0 =>
    /\ dataTheme = storageTheme
    /\ storageTheme \in Themes
    /\ lastClick.after \in Themes
    /\ lastClick.after # lastClick.before
    /\ (lastOp = "click" => dataTheme = lastClick.after)

C4_Witness ==
  clicks >= 2 /\ lastOp = "click" /\ dataTheme = "light" /\ storageTheme = "light"

\* C5: right after a page load data-theme is the saved value, or 'light'
\* when nothing is saved; it is the theme chosen by the latest click, if
\* there was one; and the button's aria-pressed and label match it.
C5_LoadRestoresSavedTheme ==
  lastOp = "load" =>
    /\ (storageTheme = NoItem => dataTheme = "light")
    /\ (storageTheme # NoItem => dataTheme = storageTheme)
    /\ (lastClick # None => dataTheme = lastClick.after)
    /\ (hasToggle => /\ ariaPressed = PressedFor(dataTheme)
                     /\ ariaLabel = LabelFor(dataTheme))

C5_Witness ==
  lastOp = "load" /\ clicks > 0 /\ dataTheme = "theo" /\ ariaPressed = "true"

\* C6: every click has dispatched exactly one 'themechange' event, whose
\* detail.theme is the new data-theme, and at the moment of the dispatch the
\* attribute, the localStorage entry and the button already show that theme.
C6_OneEventPerClickAfterUpdates ==
  /\ Len(events) = clicks
  /\ \A i \in 1..Len(events) :
       /\ events[i].theme \in Themes
       /\ events[i].attr = events[i].theme
       /\ events[i].stored = events[i].theme
       /\ events[i].pressed = PressedFor(events[i].theme)
       /\ events[i].label = LabelFor(events[i].theme)
  /\ (lastOp = "click" => events[Len(events)].theme = dataTheme)

C6_Witness ==
  clicks >= 2 /\ lastOp = "click" /\ Len(events) >= 2
    /\ events[Len(events)].theme = "theo"

----------------------------------------------------------------------------
\* Claims about the canvas animations.

\* Every colour getColors() of animation a can return under `theme`.
Palette(a, theme) ==
  CASE a = "circuit" -> SetOfValues(CircuitGetColors(theme))
    [] a = "ticker" -> SetOfValues(TickerGetColors(theme).lines)
                         \cup {TickerGetColors(theme).accent}
    [] OTHER -> SetOfValues(NeuralGetColors(theme))

FirstFrameAfterThemeChange(a) ==
  frame[a] # None /\ frame[a].prevTheme # frame[a].theme

\* C1: the first frame an animation draws after data-theme changed uses
\* only colours of the new theme: no pulse or line keeps a colour picked
\* under the previous theme.
C1_FirstFrameUsesNewTheme ==
  \A a \in Animations :
    FirstFrameAfterThemeChange(a) => frame[a].colors \subseteq Palette(a, frame[a].theme)

----------------------------------------------------------------------------
\* Claims about the search overlay.

HasField(item, f) == f \in DOMAIN item /\ Len(item[f]) > 0
ChildrenOf(anchor, class) ==
  {i \in 1..Len(anchor.children) : anchor.children[i].class = class}

\* C2: a field absent from a result record renders nothing: no subtitle,
\* description or pillar badge element, no substitute title text and no
\* substitute link target.
C2_AbsentFieldsRenderNothing ==
  pane.kind = "results" =>
    \A i \in 1..Len(results) :
      LET item == results[i]
          anchor == pane.items[i] IN
      /\ (~(HasField(item, "title") /\ HasField(item, "name")) /\ ~HasField(item, "journal")
            => ChildrenOf(anchor, "search-result-subtitle") = {})
      /\ (~HasField(item, "about") /\ ~HasField(item, "abstract")
            => ChildrenOf(anchor, "search-result-description") = {})
      /\ (~HasField(item, "pillar") => ChildrenOf(anchor, "pillar-badge") = {})
      /\ (~HasField(item, "name") /\ ~HasField(item, "title")
            => \A c \in ChildrenOf(anchor, "search-result-title") :
                 anchor.children[c].text = <<>>)
      /\ (~HasField(item, "path") => anchor.href = <<>>)

\* The records of allData in scan order.
C3_Records == allData.researchers \o allData.projects \o allData.publications

\* The six searched fields of a record, a space between neighbours.
C3_Text(item) ==
  LET F(f) == IF f \in DOMAIN item THEN item[f] ELSE <<>> IN
  F("name") \o <<" ">> \o F("title") \o <<" ">> \o F("about") \o <<" ">>
    \o F("abstract") \o <<" ">> \o F("journal") \o <<" ">> \o F("pillar")

\* q occurs in text when letter case is ignored.
C3_Occurs(q, text) ==
  \E off \in 0..(Len(text) - Len(q)) :
    \A j \in 1..Len(q) : LowerChar(text[off + j]) = LowerChar(q[j])

C3_Matching == {i \in 1..Len(C3_Records) : C3_Occurs(query, C3_Text(C3_Records[i]))}

\* C3: search(query) returns, for a query of at least 2 characters, the
\* records whose searched fields contain the query regardless of case, in
\* the order researchers, projects, publications and in array order, cut to
\* the first 10; for a shorter query it returns nothing.
C3_SearchIsOrderedSubstringScan ==
  searched =>
    IF Len(query) < 2 THEN results = <<>>
    ELSE /\ Len(results) = (IF Cardinality(C3_Matching) < 10
                              THEN Cardinality(C3_Matching) ELSE 10)
         /\ \A k \in 1..Len(results) :
              \E i \in C3_Matching :
                /\ Cardinality({j \in C3_Matching : j < i}) = k - 1
                /\ results[k] = C3_Records[i]

\* A mixed-case query with more than 10 matching records in all three
\* categories, two different researchers among them.
C3_Witness ==
  /\ searched
  /\ query = <<"A", "B">>
  /\ Cardinality(C3_Matching) > 10
  /\ Len(results) = 10
  /\ results[1] # results[2]
  /\ results[10].type = TypePublication

----------------------------------------------------------------------------
\* Claims about the pillar filter.

Displayed(item) == item.display # "none"

\* The item has a badge whose text is the filter name, whitespace aside.
BadgeNames(item, filter) ==
  /\ item.hasBadge
  /\ \E i \in 1..Len(item.text) :
       /\ item.text[i] = filter
       /\ \A j \in 1..Len(item.text) : j # i => item.text[j] \in Whitespace

ShownUnder(filter) ==
  \A i \in 1..Len(listItems) :
    Displayed(listItems[i]) <=> (filter = "all" \/ BadgeNames(listItems[i], filter))

\* C7: after a click on filter button F exactly the clicked button is
\* active, and an item is displayed iff F is 'all' or the trimmed text of
\* its badge equals F; an item without a badge is hidden unless F is 'all'.
C7_ClickShowsExactlyThePillar ==
  filterOp = "click" =>
    /\ lastFilter \in FilterNames
    /\ active = {lastFilter}
    /\ ShownUnder(lastFilter)
    /\ \A i \in 1..Len(listItems) :
         ~listItems[i].hasBadge /\ lastFilter # "all" => ~Displayed(listItems[i])

\* A click on PREVENT with a padded PREVENT badge shown and a PREDICT badge
\* and a badge-less item hidden.
C7_Witness ==
  /\ filterOp = "click"
  /\ lastFilter = "PREVENT"
  /\ \E i, j, k \in 1..Len(listItems) :
       /\ listItems[i].hasBadge /\ Len(listItems[i].text) > 1 /\ Displayed(listItems[i])
       /\ listItems[j].text = <<"PREDICT">> /\ ~Displayed(listItems[j])
       /\ ~listItems[k].hasBadge /\ ~Displayed(listItems[k])

\* The projects listing of the generated site is projects/index.html.
IsProjectsListPage == pathname = <<"/projects/", "index.html">>

----------------------------------------------------------------------------
\* Claims about reduced motion and the 3D scene.

\* C9: with prefers-reduced-motion matching at page load no script starts a
\* self-rescheduling animation (no requestAnimationFrame loop, no timer
\* chain, typed text and count-up included), no AnimationCore loop runs,
\* and the 3D scene, once set up, has been rendered exactly once.
C9_ReducedMotionStartsNothing ==
  prefersReduced =>
    /\ started = {}
    /\ rafPending = {}
    /\ timerPending = {}
    /\ ~coreRunning
    /\ (rendererCreated => renderCount = 1)

\* A WebGL context can be obtained: the first context name that yields
\* anything yields a context, and nothing throws on the way.
C10_ContextObtainable(env) ==
  /\ env.ctor
  /\ \/ env.webgl = "context"
     \/ env.webgl = "null" /\ env.experimental = "context"

\* C10: with #three-container present the script adds exactly one of
\* 'no-webgl' and 'webgl-ready'; 'no-webgl' iff no WebGL context can be
\* obtained or THREE is missing, and then there is no renderer, no
\* listener and no animation loop; without the container nothing happens.
C10_WebGLOptional ==
  sceneLoaded =>
    /\ (sceneEnv.container =>
          /\ Cardinality(bodyClasses \cap {"no-webgl", "webgl-ready"}) = 1
          /\ ("no-webgl" \in bodyClasses
                <=> (~C10_ContextObtainable(sceneEnv) \/ ~sceneEnv.three)))
    /\ ("no-webgl" \in bodyClasses \/ ~sceneEnv.container =>
          /\ ~rendererCreated
          /\ sceneListeners = {}
          /\ sceneHandled = {}
          /\ "scene" \notin rafPending
          /\ renderCount = 0)
    /\ (~sceneEnv.container => bodyClasses = {})

\* The container is there and getContext("webgl") works, but THREE is not
\* loaded: the script has run and set 'no-webgl'.
C10_Witness ==
  /\ sceneLoaded
  /\ sceneEnv.container
  /\ sceneEnv.ctor
  /\ sceneEnv.webgl = "context"
  /\ ~sceneEnv.three
  /\ bodyClasses = {"no-webgl"}

----------------------------------------------------------------------------
\* Claims about FitText.

\* C11: once fitElement has run on a displayed, non-empty element, its text
\* measured at the font size in force is no wider than the available width.
C11_FittedTextFits ==
  fitRan =>
    MeasureTextWidth(fitEl.textLen, AppliedFontSize(fitEl, fitStyle))
      <= AvailableWidth(fitEl)

----------------------------------------------------------------------------
\* Claims about the site build.

Validated == stage \in {"validated", "rendered"}

\* The normalized records of a sheet.
RecordsOf(type) == { records[type][i] : i \in Parsed(records, type) }

\* The record refers, through `field`, to an identifier no record of the
\* sheet `field` carries.
Dangles(rec, field) ==
  /\ field \in DOMAIN rec.fields
  /\ \A other \in RecordsOf(field) : other.fields.id # rec.fields[field]

DanglingReferences ==
  { <<rec, "researcher">> : rec \in { r \in RecordsOf("project") : Dangles(r, "researcher") } }
    \cup { <<rec, "project">> : rec \in { r \in RecordsOf("publication") : Dangles(r, "project") } }

\* The positions in a findings list of the errors that name the record and
\* the identifier it refers to.
ReferenceErrors(list, rec, target) ==
  { k \in DOMAIN list :
      /\ list[k].severity = "error"
      /\ list[k].rule = "reference"
      /\ list[k].entity.type = rec.type
      /\ list[k].entity.row = rec.row
      /\ list[k].entity.id = rec.fields.id
      /\ list[k].target = target }

\* C12: for every project -> researcher or publication -> project reference
\* that names a nonexistent identifier, the findings hold exactly one error
\* naming the record and the missing target, and the findings file written
\* with the site holds it too.
C12_DanglingReferenceReported ==
  \A d \in DanglingReferences :
    /\ Validated =>
         Cardinality(ReferenceErrors(findings, d[1], d[1].fields[d[2]])) = 1
    /\ stage = "rendered" =>
         Cardinality(ReferenceErrors(output.findings, d[1], d[1].fields[d[2]])) = 1

C12_Witness ==
  /\ stage = "rendered"
  /\ \E d \in DanglingReferences : d[2] = "researcher" /\ d[1].fields.researcher = "99"
  /\ \E d \in DanglingReferences : d[2] = "project" /\ d[1].fields.project = "1"
  /\ Cardinality(DanglingReferences) = 3

\* A finding of the rule about the row of the sheet is in the list.
Reports(list, rule, type, row) ==
  \E k \in DOMAIN list :
    /\ list[k].rule = rule
    /\ list[k].entity.type = type
    /\ list[k].entity.row = row

\* The rows of a sheet that did not normalize.
Unparsed(type) == (DOMAIN records[type]) \ Parsed(records, type)

\* Every defect of the dataset has its finding in the list.
CompleteFindings(list) ==
  /\ \A t \in DOMAIN records : \A i \in Unparsed(t) : Reports(list, "parse", t, i)
  /\ \A rec \in RecordsOf("researcher") :
       "name" \notin DOMAIN rec.fields => Reports(list, "required", "researcher", rec.row)
  /\ \A t \in {"project", "publication"} : \A rec \in RecordsOf(t) :
       "title" \notin DOMAIN rec.fields => Reports(list, "required", t, rec.row)
  /\ \A rec \in RecordsOf("project") :
       rec.fields.pillar \notin Pillars => Reports(list, "pillar", "project", rec.row)
  /\ \A d \in DanglingReferences : Reports(list, "reference", d[1].type, d[1].row)
  /\ Cardinality({ rec \in RecordsOf("researcher") : rec.fields.lead }) # 1
       => \E k \in DOMAIN list : list[k].rule = "leadership"
  /\ \A t \in DOMAIN records : \A a, b \in RecordsOf(t) :
       a.row < b.row /\ a.fields.id = b.fields.id => Reports(list, "unique", t, a.row)

\* The site has its homepage and, for every sheet, the list page, the JSON
\* index and one detail page per normalized record.
AllPagesProduced ==
  /\ "home" \in DOMAIN output
  /\ \A t \in DOMAIN records :
       /\ Len(output.lists[t]) = Cardinality(RecordsOf(t))
       /\ Len(output.json[t]) = Cardinality(RecordsOf(t))
       /\ \A rec \in RecordsOf(t) :
            \E k \in DOMAIN output.details[t] :
              /\ output.details[t][k].path.id = rec.fields.id
              /\ output.details[t][k].path.row = rec.row

\* C13: whatever the dataset holds, the run validates every record under every
\* rule, is never stopped by a finding, writes the complete findings list and
\* produces every page.
C13_FindingsNeverBlock ==
  /\ Validated => CompleteFindings(findings)
  /\ stage = "validated" => ENABLED Render
  /\ stage = "rendered" => CompleteFindings(output.findings) /\ AllPagesProduced

C13_Witness ==
  /\ stage = "rendered"
  /\ Unparsed("publication") # {}
  /\ \E d \in DanglingReferences : d[2] = "researcher" /\ d[1].fields.researcher = "99"
  /\ Len(output.findings) >= 4
  /\ Len(output.details.project) = 2

\* The detail pages written for the record the leadership block is bound to.
LeadDetailPages(block) ==
  { output.details.researcher[k] : k \in { j \in DOMAIN output.details.researcher :
      output.details.researcher[j].path = block.lead } }

\* The record of a page.
RecordAt(path) == CHOOSE rec \in RecordsOf(path.dir) : rec.row = path.row

\* C14: the LinkedIn link of the division lead is in the homepage leadership
\* block exactly if it is on the lead's detail page, and a lead whose record
\* has no link gets the element in neither.
C14_LeadLinkConsistent ==
  stage = "rendered" =>
    \A k \in DOMAIN output.home.leadership :
      LET block == output.home.leadership[k]
      IN  \A page \in LeadDetailPages(block) :
            /\ "linkedin-link" \in block.elements <=> "linkedin-link" \in page.elements
            /\ "linkedin" \notin DOMAIN RecordAt(block.lead).fields
                 => /\ "linkedin-link" \notin block.elements
                    /\ "linkedin-link" \notin page.elements

\* The researchers flagged as division lead.
Leads == { rec \in RecordsOf("researcher") : rec.fields.lead }

LeadershipFindingsIn(list) == { k \in DOMAIN list : list[k].rule = "leadership" }

\* The identifiers a leadership finding names.
NamedIn(finding) == { finding.flagged[i] : i \in DOMAIN finding.flagged }

\* C15: the findings hold no leadership finding when exactly one researcher is
\* flagged as lead, exactly one when none is, exactly one naming every flagged
\* identifier when several are; each is a warning.
C15_LeadershipRule ==
  Validated =>
    LET found == LeadershipFindingsIn(findings)
    IN  /\ Cardinality(Leads) = 1 => found = {}
        /\ Cardinality(Leads) = 0 => Cardinality(found) = 1
        /\ Cardinality(Leads) > 1 =>
             /\ Cardinality(found) = 1
             /\ \A k \in found : NamedIn(findings[k]) = { rec.fields.id : rec \in Leads }
        /\ \A k \in found : findings[k].severity = "warning"

C15_Witness ==
  /\ Validated
  /\ { rec.fields.id : rec \in Leads } = {"1", "2"}
  /\ Cardinality(LeadershipFindingsIn(findings)) = 1

UniquenessErrorsIn(list) ==
  { k \in DOMAIN list : list[k].rule = "unique" /\ list[k].severity = "error" }

\* C16: two records of one sheet that share an identifier have an error that
\* identifies both; no uniqueness error pairs records of different sheets.
C16_IdentifierUniqueness ==
  Validated =>
    /\ \A t \in DOMAIN records : \A a, b \in RecordsOf(t) :
         a.row < b.row /\ a.fields.id = b.fields.id =>
           \E k \in UniquenessErrorsIn(findings) :
             /\ findings[k].entity = [ type |-> t, row |-> a.row, id |-> a.fields.id ]
             /\ findings[k].other = [ type |-> t, row |-> b.row, id |-> b.fields.id ]
    /\ \A k \in DOMAIN findings :
         findings[k].rule = "unique" =>
           /\ findings[k].severity = "error"
           /\ findings[k].entity.type = findings[k].other.type
           /\ findings[k].entity.row # findings[k].other.row

C16_Witness ==
  /\ Validated
  /\ \E a, b \in RecordsOf("researcher") : a.row < b.row /\ a.fields.id = b.fields.id
  /\ \E a \in RecordsOf("researcher") : \E b \in RecordsOf("project") :
       a.fields.id = b.fields.id
  /\ Cardinality(UniquenessErrorsIn(findings)) = 1

\* The items of a list page or JSON index follow the rows of their sheet:
\* one per normalized row, rows ascending, each carrying its row's identifier.
InRowOrder(list, type) ==
  /\ Len(list) = Cardinality(Parsed(Normalizer(sheets), type))
  /\ \A k \in DOMAIN list : list[k].id = sheets[type][list[k].path.row].id
  /\ \A k, l \in DOMAIN list : k < l => list[k].path.row < list[l].path.row

FilesInRowOrder(files) ==
  \A t \in DOMAIN sheets : InRowOrder(files.lists[t], t) /\ InRowOrder(files.json[t], t)

----------------------------------------------------------------------------
\* Claims about the theme toggle and the system colour scheme.

ButtonState == <<ariaLabel, ariaPressed, toggleText>>

\* C18: a change of the system colour scheme never writes localStorage; it
\* sets the theme (theo for dark, light otherwise) and the button while no
\* theme is saved, and leaves data-theme and the button alone while one is
\* saved, hence after any click on the toggle.
C18_SystemChangeRespectsSavedChoice ==
  [][ prefersDark' # prefersDark =>
        /\ storageTheme' = storageTheme
        /\ (storageTheme # NoItem \/ clicks > 0) =>
             /\ dataTheme' = dataTheme
             /\ ButtonState' = ButtonState
        /\ (storageTheme = NoItem /\ hasMatchMedia) =>
             /\ dataTheme' = (IF prefersDark' THEN "theo" ELSE "light")
             /\ hasToggle => ariaPressed' = PressedFor(dataTheme')
        /\ dataTheme' # dataTheme => storageTheme = NoItem
    ]_vars

C18_Witness ==
  /\ lastOp = "prefchange"
  /\ clicks > 0
  /\ hasMatchMedia
  /\ dataTheme # (IF prefersDark THEN "theo" ELSE "light")

----------------------------------------------------------------------------
\* Claims about the cards and the click pulse.

Scripts == {"card", "pulse"}

\* The ripples a click left in the document, per script.
RipplesOf(n, script) == { r \in cardRipples : r.click = n /\ r.script = script }

\* C19: however often initAllCards and bindRippleEvents run, a card is
\* initialised once and bound once, carries each script's click listener at
\* most once, and a click on it adds at most one ripple per script.
C19_InitialisedOnce ==
  /\ \A c \in CardIds :
       /\ cardEls[c].inits <= 1
       /\ cardEls[c].binds <= 1
       /\ cardEls[c].cardInteractive => cardEls[c].inits = 1
       /\ cardEls[c].rippleBound => cardEls[c].binds = 1
       /\ ListenerCount(cardEls[c], "handleClick") = cardEls[c].inits
       /\ ListenerCount(cardEls[c], "createRipple") = cardEls[c].binds
  /\ \A n \in 1 .. cardClicks : \A script \in Scripts :
       Cardinality(RipplesOf(n, script)) <= 1

C19_Witness ==
  /\ cardClicks = 2
  /\ \A c \in CardIds : cardEls[c].inits = 1 /\ cardEls[c].binds = 1
  /\ \A t \in cardTimers : t.kind # "initAllCards"
  /\ lastCardClick.card = 2
  /\ RipplesOf(2, "card") # {}
  /\ RipplesOf(2, "pulse") # {}

\* The link of the cards, by priority: data-href, inner anchor, wrapping anchor.
CardLinkByPriority ==
  LET order == << cardLinks.dataHref, cardLinks.innerHref, cardLinks.wrapHref >>
      set == { i \in 1 .. 3 : order[i] # NoItem }
  IN  IF set = {} THEN NoItem ELSE order[CHOOSE i \in set : \A j \in set : i <= j]

\* The click's target lies inside an anchor or a button.
InsideAnchorOrButton(target) ==
  target \in {"a", "button"} \/ cardLinks.wrapHref # NoItem

NavigationsOf(timers, n) == { t \in timers : t.kind = "navigate" /\ t.click = n }

\* C20: a click on an initialised card, outside any anchor or button, on a
\* card with a link prevents the default action, adds one card ripple and
\* schedules one navigation to the link, by priority, 200 ms later, the ripple
\* staying until 300 ms; any other click schedules no navigation and adds no
\* card ripple; and when the navigation runs the click's ripple is still there.
C20_CardClickNavigates ==
  [][ /\ cardClicks' = cardClicks + 1 =>
           LET k == lastCardClick'
               n == k.click
           IN  IF /\ cardEls[k.card].cardInteractive
                  /\ ~InsideAnchorOrButton(k.target)
                  /\ CardLinkByPriority # NoItem
                 THEN /\ k.prevented
                      /\ Cardinality({ r \in cardRipples' : r.click = n /\ r.script = "card" }) = 1
                      /\ Cardinality(NavigationsOf(cardTimers', n)) = 1
                      /\ \A t \in NavigationsOf(cardTimers', n) :
                           /\ t.href = CardLinkByPriority
                           /\ t.due = cardClock' + NavigationDelay
                      /\ \A t \in cardTimers' :
                           (t.kind = "removeRipple" /\ t.ripple.click = n
                              /\ t.ripple.script = "card")
                             => t.due = cardClock' + RippleDuration
                 ELSE /\ ~k.prevented
                      /\ { r \in cardRipples' : r.click = n /\ r.script = "card" } = {}
                      /\ NavigationsOf(cardTimers', n) = {}
      /\ \A t \in cardTimers \ cardTimers' :
           t.kind = "navigate" =>
             /\ cardLocation' = t.href
             /\ RipplesOf(t.click, "card") # {}
             /\ cardClock' = t.due
    ]_vars

C20_Witness ==
  /\ cardLocation = "/inner"
  /\ cardLinks.innerHref = "/inner"
  /\ cardClicks = 2
  /\ lastCardClick.target = "surface"
  /\ RipplesOf(2, "card") # {}

----------------------------------------------------------------------------
\* Claims about the falling blocks.

\* C21: a block only ever moves downward: while it exists (identities are
\* never reused, so a block that exists before and after a step was not
\* recreated by a resize) its y never decreases from one step to the next,
\* and a block at rest is never below the floor line
\* dimensions.height - 2 * blockSize.
C21_BlocksOnlyMoveDown ==
  [][\A b \in DOMAIN blockObjs \cap DOMAIN blockObjs' :
       /\ blockObjs'[b].y >= blockObjs[b].y
       /\ blockObjs'[b].settled => blockObjs'[b].y <= FloorLine]_vars

----------------------------------------------------------------------------
\* Claims about AnimationCore.createAnimationLoop.

\* At most one requestAnimationFrame callback of the loop is pending, also
\* while a frame callback is still running.
OnePendingFrame == Cardinality(rafCallbacks) <= 1 /\ peakPending <= 1

\* start() while the loop runs changes nothing.
StartWhileRunningNoOp ==
  [][(loopOp' = "start" /\ isRunning) =>
       UNCHANGED <<isRunning, animationId, rafCallbacks, nextRafId>>]_vars

\* isRunning() is true exactly when the latest call was a start().  With
\* prefers-reduced-motion start() returns at once (line 761), so the loop
\* never runs; the statement is read for a page without that preference.
RunningBetweenStartAndStop ==
  ~prefersReducedMotion => (isRunning <=> lastCall = "start")

\* Neither function has been invoked while the latest call was stop().
NoCallAfterStop == lateCalls = {}

\* C22: under any interleaving of start(), stop() and frame callbacks, with
\* start and stop also called from inside updateFn and drawFn: at most one
\* callback is pending, start() while running is a no-op, isRunning() is true
\* exactly between a start and the next stop, and updateFn and drawFn are
\* never invoked after stop() until the next start().
C22_LoopDiscipline ==
  /\ [](OnePendingFrame /\ RunningBetweenStartAndStop /\ NoCallAfterStop)
  /\ StartWhileRunningNoOp

----------------------------------------------------------------------------
\* Claims about the circuit pulses.

PulseOnTrace(p) == p.traceIndex \in 1 .. Len(traces)

PulseCompleted(p) == p.progress > traces[p.traceIndex].totalLength + p.length

\* C23: after any interleaving of frames, periodic pulse creation and
\* resizes, every pulse's traceIndex is an index into the current traces
\* array, and no pulse is kept whose progress exceeds its trace's total
\* length plus the pulse length.
C23_PulsesOnLiveTraces ==
  \A i \in 1 .. Len(pulses) : PulseOnTrace(pulses[i]) /\ ~PulseCompleted(pulses[i])

\* Some pulses are gone (completed, or dropped by a resize) and one of those
\* left is on its last frame.
C23_Witness ==
  /\ pageKind = "project"
  /\ Len(pulses) \in 1 .. (InitialPulses - 1)
  /\ \E i \in 1 .. Len(pulses) :
       pulses[i].progress = traces[pulses[i].traceIndex].totalLength + pulses[i].length

----------------------------------------------------------------------------
\* Claims about the search overlay's events.

\* Result items in the pane are those of the value now in the input.  (A
\* superseded query's results replacing newer output leaves the pane in a
\* state this excludes.)
ShownResultsAreCurrent ==
  pane.kind = "results" =>
    allData # None /\ pane = DisplayResults(Search(inputValue, allData))

\* From closeSearch until the next input event the pane shows the hint.
HintAfterClose == closedSince => pane = HintPane

\* C24: under any interleaving of input events, the debounce timer, loads in
\* flight and closing the overlay, result items shown are the results for the
\* value currently in the input, and after closeSearch the pane shows the
\* hint until the next input event.
C24_ResultsNeverStale == ShownResultsAreCurrent /\ HintAfterClose

=============================================================================
